---------------------------- MODULE Spec2Model ----------------------------
(***************************************************************************)
(* Policy Decision Client of SentinelGate.                                 *)
(*                                                                         *)
(* Two clients implement the same protocol:                                *)
(*   impl = "sdk"      sdks/python/sentinelgate/client.py                  *)
(*                     (SentinelGateClient)                                *)
(*   impl = "runtime"  internal/domain/runtime/python/sitecustomize.py     *)
(*                     (_SentinelGateClient)                               *)
(* One behaviour is the life of one client instance.  A caller thread      *)
(* runs evaluate (or check) step by step: the cache lookup under the cache *)
(* lock, the evaluation request, then the approval polling loop, one step  *)
(* per time.sleep and one per status request.                              *)
(*                                                                         *)
(* Time.  The code compares time.time() - entry[1] with cache_ttl and      *)
(* nothing else, so a cache entry carries its age, min(now - recorded_at,  *)
(* cache_ttl), instead of its timestamp: the comparison is the same and    *)
(* the clock needs no bound.                                               *)
(***************************************************************************)
EXTENDS Integers, Sequences, FiniteSets, TLC

VARIABLES
    impl,               \* which client this instance is
    fail_mode,          \* self._fail_mode
    threads,            \* the caller threads of this behaviour
    cache,              \* self._cache: OrderedDict, first = least recently used
    cache_lock,         \* self._cache_lock: "free" or the caller holding it
    accessed,           \* keys in the cache, by last access (history)
    audit_buffer,       \* self._audit_buffer (runtime client)
    submitted,          \* number of audit events buffered so far
    flush,              \* each _audit_buffer_flush in progress: position, events
    delivered,          \* the audit events the server has received (history)
    pc,                 \* position of each caller in evaluate
    call,               \* arguments of the call in progress
    original_response,  \* resp_data of the evaluation request
    outcome,            \* how the last call ended: returned value or raised error
    stats,              \* what the call in progress has done so far (history)
    probe,              \* inputs and results of the functions examined alone
    site                \* the call each thread makes at an instrumented site

\* the history of the cache, and the state of the audit flushes
cache_history == <<accessed>>
flush_vars == <<flush, delivered>>

vars == <<impl, fail_mode, threads, cache, cache_lock, accessed,
          audit_buffer, submitted, flush, delivered, pc, call,
          original_response, outcome, stats, probe, site>>

----------------------------------------------------------------------------
(* Bounds and program constants *)

\* cache_ttl, in clock ticks (configurable; the default is 5)
CacheTTL == 2

\* cache_max_size / _cache_max (configurable in the SDK; 1000 by default)
CacheMaxSize == 2

\* events the audit buffer may hold before transport failures stop being explored
MaxAudit == 1

\* audit events one behaviour buffers in all
MaxEvents == 3

\* max_polls in _poll_approval
MaxPolls == 30

\* poll_interval in _poll_approval, seconds
PollInterval == 2

Callers == {"c1", "c2"}

\* the threads that may run _audit_buffer_flush
Flushers == {"f1", "f2"}

Impls == {"sdk", "runtime"}

FailModes == {"open", "closed"}

----------------------------------------------------------------------------
(* JSON objects: a key that is missing holds Absent *)

Absent == "<absent>"

\* dict.get(key, default)
Get(d, key, default) == IF d[key] = Absent THEN default ELSE d[key]

\* variant: an empty string counts as a value
TruthyIfPresent(v) == v # Absent

\* truthiness of a string value (a missing or empty request_id is falsy)
Truthy(v) == v # Absent /\ v # ""

Fields == {"decision", "rule_id", "rule_name", "reason", "help_url",
           "help_text", "request_id", "latency_ms"}

NoFields == [f \in Fields |-> Absent]

RespAllow ==
    [decision |-> "allow", rule_id |-> "", rule_name |-> "", reason |-> "",
     help_url |-> "", help_text |-> "", request_id |-> "req-allow",
     latency_ms |-> "1"]

RespDeny ==
    [decision |-> "deny", rule_id |-> "rule-1", rule_name |-> "block-rm",
     reason |-> "blocked by policy", help_url |-> "https://help/rule-1",
     help_text |-> "ask an admin", request_id |-> "req-deny",
     latency_ms |-> "2"]

\* a deny that carries no help text
RespDenyNoHelp == [RespDeny EXCEPT !.help_text = ""]

RespApproval ==
    [decision |-> "approval_required", rule_id |-> "rule-approval",
     rule_name |-> "needs-approval", reason |-> "requires human approval",
     help_url |-> "https://help/approval", help_text |-> "a reviewer decides",
     request_id |-> "req-approval-1", latency_ms |-> "3"]

RespApprovalNoId == [RespApproval EXCEPT !.request_id = ""]

RespApprovalMissingId == [RespApproval EXCEPT !.request_id = Absent]

\* an object without a decision field
RespNoDecision == [NoFields EXCEPT !.reason = "no decision"]

\* an object whose decision is no known string
RespUnknown == [NoFields EXCEPT !.decision = "maybe", !.reason = "unknown"]

\* valid JSON that is no object: resp_data.get raises AttributeError
NotAnObject == [NoFields EXCEPT !.decision = "<not an object>"]

ServerResponses ==
    {RespAllow, RespDeny, RespDenyNoHelp, RespApproval, RespApprovalNoId,
     RespApprovalMissingId, RespNoDecision, RespUnknown, NotAnObject}

\* status payloads of GET .../status: {request_id, status, reason?, updated_at}
StatusPayloads ==
    { [status |-> "pending",  reason |-> Absent],
      [status |-> "approved", reason |-> Absent],
      [status |-> "allow",    reason |-> Absent],
      [status |-> "denied",   reason |-> "too risky"],
      [status |-> "deny",     reason |-> Absent],
      [status |-> "expired",  reason |-> Absent],
      [status |-> "",         reason |-> Absent],
      [status |-> Absent,     reason |-> Absent] }

NoResponse == [NoFields EXCEPT !.decision = "<none>"]

----------------------------------------------------------------------------
(* Action descriptors and the cache key *)

\* the argument names used, in lexicographic order (Python compares str keys)
ArgNames == <<"access", "args", "full_command", "headers", "mode", "path",
              "url">>

Rank(k) == CHOOSE i \in 1..Len(ArgNames) : ArgNames[i] = k

\* an argument value: a string, a nested dict (its items, strings, in
\* insertion order), or a list of strings
Str(v) == [kind |-> "str", str |-> v, items |-> <<>>]

List(items) == [kind |-> "list", str |-> "", items |-> items]

Dict(items) == [kind |-> "dict", str |-> "", items |-> items]

\* arguments is a dict: its items in insertion order
ActLs == [action_type |-> "command_exec", action_name |-> "ls",
          arguments |-> <<>>]

ActDeploy == [action_type |-> "command_exec", action_name |-> "deploy",
              arguments |-> << <<"args", Str("prod")>> >>]

ActRm == [action_type |-> "command_exec", action_name |-> "rm",
          arguments |-> << <<"args", Str("-rf")>>,
                           <<"full_command", Str("rm -rf")>> >>]

ActRmSwapped ==
    [action_type |-> "command_exec", action_name |-> "rm",
     arguments |-> << <<"full_command", Str("rm -rf")>>,
                      <<"args", Str("-rf")>> >>]

Actions == {ActLs, ActDeploy, ActRm, ActRmSwapped}

\* The policy of the decision service explored here: what it may answer to an
\* evaluation request for each action.  Every answer may differ from the one
\* before; approval is required for deployments only, and only the answers
\* about ls are ever malformed; a deny without help text is given to open.
ServerAnswers(a) ==
    IF a.action_name = "deploy"
    THEN {RespAllow, RespApproval, RespApprovalNoId, RespApprovalMissingId}
    ELSE IF a.action_name = "ls"
    THEN {RespAllow, RespDeny, RespNoDecision, RespUnknown, NotAnObject}
    ELSE IF a.action_name = "open"
    THEN {RespAllow, RespDeny, RespDenyNoHelp}
    ELSE {RespAllow, RespDeny}

\* The network explored here: the evaluation requests that may fail are
\* those about ls (like the malformed answers), so that the audit buffer
\* holds events of one action.
MayFail(a) == a.action_name = "ls"

\* insert item into a list sorted by key
RECURSIVE InsertSorted(_, _)
InsertSorted(item, s) ==
    IF s = <<>> THEN <<item>>
    ELSE IF Rank(item[1]) <= Rank(Head(s)[1]) THEN <<item>> \o s
    ELSE <<Head(s)>> \o InsertSorted(item, Tail(s))

\* sorted(arguments.items())
RECURSIVE Sorted(_)
Sorted(items) ==
    IF items = <<>> THEN <<>>
    ELSE InsertSorted(Head(items), Sorted(Tail(items)))

\* repr of a str
ReprStr(v) == "'" \o v \o "'"

\* repr of a dict: its items in insertion order
RECURSIVE ReprItems(_)
ReprItems(items) ==
    IF items = <<>> THEN ""
    ELSE ReprStr(Head(items)[1]) \o ": " \o ReprStr(Head(items)[2])
         \o (IF Tail(items) = <<>> THEN "" ELSE ", " \o ReprItems(Tail(items)))

\* repr of a list of str
RECURSIVE ReprList(_)
ReprList(items) ==
    IF items = <<>> THEN ""
    ELSE ReprStr(Head(items))
         \o (IF Tail(items) = <<>> THEN "" ELSE ", " \o ReprList(Tail(items)))

ReprValue(v) ==
    IF v.kind = "str" THEN ReprStr(v.str)
    ELSE IF v.kind = "list" THEN "[" \o ReprList(v.items) \o "]"
    ELSE "{" \o ReprItems(v.items) \o "}"

\* repr of a list of (key, value) tuples
RECURSIVE ReprTuples(_)
ReprTuples(items) ==
    IF items = <<>> THEN ""
    ELSE "(" \o ReprStr(Head(items)[1]) \o ", " \o ReprValue(Head(items)[2])
         \o ")"
         \o (IF Tail(items) = <<>> THEN "" ELSE ", " \o ReprTuples(Tail(items)))

Repr(items) == "[" \o ReprTuples(items) \o "]"

\* _cache_key: (action_type, action_name, repr(sorted(arguments.items())) or "")
CacheKeyOf(action_type, action_name, arguments) ==
    <<action_type, action_name,
      IF arguments # <<>> THEN Repr(Sorted(arguments)) ELSE "">>

CacheKey(a) == CacheKeyOf(a.action_type, a.action_name, a.arguments)

----------------------------------------------------------------------------
(* The LRU cache: a sequence of [key, value, age], first = oldest *)

Min(a, b) == IF a <= b THEN a ELSE b

Keys(c) == {c[i].key : i \in 1..Len(c)}

IndexOf(c, k) == CHOOSE i \in 1..Len(c) : c[i].key = k

Remove(c, k) == SelectSeq(c, LAMBDA e : e.key # k)

\* variant: the age test with <= in place of <
FreshInclusive(entry) == entry.age <= CacheTTL

\* variant: an entry never expires
FreshAlways(entry) == TRUE

\* the age test of a lookup: (time.time() - entry[1]) < self._cache_ttl
Fresh(entry) == entry.age < CacheTTL

\* variant: a hit leaves the entry where it is
MoveToEndNowhere(c, k) == c

\* variant: a hit also renews the entry
MoveToEndRenewed(c, k) ==
    Remove(c, k) \o <<[c[IndexOf(c, k)] EXCEPT !.age = 0]>>

\* self._cache.move_to_end(cache_key)
MoveToEnd(c, k) == Remove(c, k) \o <<c[IndexOf(c, k)]>>

\* while len(self._cache) > max: self._cache.popitem(last=False)
RECURSIVE Evict(_)
Evict(c) == IF Len(c) > CacheMaxSize THEN Evict(Tail(c)) ELSE c

\* self._cache[cache_key] = (resp_data, time.time()): an existing key keeps
\* its position in the OrderedDict, a new key goes last
Insert(c, k, v) ==
    IF k \in Keys(c)
    THEN [c EXCEPT ![IndexOf(c, k)] = [key |-> k, value |-> v, age |-> 0]]
    ELSE Append(c, [key |-> k, value |-> v, age |-> 0])

\* the whole store: the assignment, then the eviction loop
Put(c, k, v) == Evict(Insert(c, k, v))

\* histories: key k becomes the latest of s; s keeps the keys still cached
Touch(s, k) == SelectSeq(s, LAMBDA x : x # k) \o <<k>>

Prune(s, c) == SelectSeq(s, LAMBDA x : x \in Keys(c))

\* history of an eviction from cache c to cache d: an entry was evicted
\* though an entry stored before it (recorded_at is older) is kept
Spared(c, d) ==
    \E i \in DOMAIN c, j \in DOMAIN c :
        /\ c[i].key \notin Keys(d)
        /\ c[j].key \in Keys(d)
        /\ c[j].age > c[i].age

\* d seconds pass: every entry grows older (ages saturate at cache_ttl)
Elapse(c, d) ==
    [i \in 1..Len(c) |-> [c[i] EXCEPT !.age = Min(c[i].age + d, CacheTTL)]]

----------------------------------------------------------------------------
(* Results of evaluate: a returned dict or a raised exception *)

Return(v) == [kind |-> "return", value |-> v]

Raise(e) == [kind |-> "raise", value |-> e]

NoOutcome == [kind |-> "none", value |-> NoResponse, check |-> "n/a"]

\* exceptions carry the same keys as decisions, plus type and message
Exc(type, message) ==
    [type |-> type, message |-> message, rule_id |-> Absent,
     rule_name |-> Absent, reason |-> Absent, help_url |-> Absent,
     help_text |-> Absent, request_id |-> Absent]

\* PolicyDeniedError(message="Policy denied: <reason>", rule_id=..., ...)
PolicyDeniedError(d) ==
    [type |-> "PolicyDeniedError",
     message |-> "Policy denied: " \o Get(d, "reason", ""),
     rule_id |-> Get(d, "rule_id", ""), rule_name |-> Get(d, "rule_name", ""),
     reason |-> Get(d, "reason", ""), help_url |-> Get(d, "help_url", ""),
     help_text |-> Get(d, "help_text", ""), request_id |-> Absent]

\* ApprovalTimeoutError("Approval timed out after <max_polls*poll_interval>s")
ApprovalTimeoutError(request_id) ==
    [Exc("ApprovalTimeoutError",
         "Approval timed out after " \o ToString(MaxPolls * PollInterval) \o "s")
     EXCEPT !.request_id = request_id]

ServerUnreachableError == Exc("ServerUnreachableError",
                              "SentinelGate server unreachable")

\* the runtime client's fail-closed error
RtUnreachableError ==
    Exc("PermissionError",
        "SentinelGate: Action denied - server unreachable (fail-closed mode)")

AttributeError == Exc("AttributeError", "object has no attribute 'get'")

\* the dict the SDK returns on fail-open
SdkFailOpen ==
    [decision |-> "allow", reason |-> "fail-open", rule_id |-> "",
     rule_name |-> "", help_url |-> "", help_text |-> "", request_id |-> "",
     latency_ms |-> "0"]

\* the dict the runtime client returns on fail-open
RtFailOpen == [NoFields EXCEPT !.decision = "allow", !.reason = "fail-open"]

\* variant: the fail mode is ignored and the error always raised
FailOutcomeAlwaysRaises(im, fm) ==
    Raise(IF im = "sdk" THEN ServerUnreachableError ELSE RtUnreachableError)

\* variant: the fail mode is ignored and the action always allowed
FailOutcomeAlwaysAllows(im, fm) ==
    Return(IF im = "sdk" THEN SdkFailOpen ELSE RtFailOpen)

\* what a transport failure of the evaluation request resolves to
FailOutcome(im, fm) ==
    IF fm = "closed"
    THEN Raise(IF im = "sdk" THEN ServerUnreachableError ELSE RtUnreachableError)
    ELSE Return(IF im = "sdk" THEN SdkFailOpen ELSE RtFailOpen)

\* warnings.warn(...) happens on the fail-open path only
FailWarnings(fm) == IF fm = "closed" THEN 0 ELSE 1

\* _buffer_audit_event: the event stored when the server was unreachable;
\* its timestamp is its rank among the events buffered so far
AuditEvent(a, decision, reason, ts) ==
    [action_type |-> a.action_type, action_name |-> a.action_name,
     arguments |-> a.arguments, decision |-> decision, reason |-> reason,
     timestamp |-> ts]

\* the audit events a transport failure appends (the SDK has no audit buffer)
FailAudit(im, fm, a, ts) ==
    IF im = "sdk" THEN <<>>
    ELSE IF fm = "closed" THEN <<AuditEvent(a, "deny", "fail-closed", ts)>>
    ELSE <<AuditEvent(a, "allow", "fail-open", ts)>>

\* the decision of a response: resp_data.get("decision", "allow")
DecisionOf(r) == Get(r, "decision", "allow")

\* variant: every decision is cached
CacheableAny(decision) == TRUE

\* "Cache allow decisions": if decision == "allow"
Cacheable(decision) == decision = "allow"

\* variant: a deny is always returned
RaisesOnDenyNever(im, raise_on_deny) == FALSE

\* "Raise on deny if configured" (the runtime client always returns)
RaisesOnDeny(im, raise_on_deny) == im = "sdk" /\ raise_on_deny

\* the poller's result on status approved / allow
Approved(im, rid, orig) ==
    IF im = "sdk"
    THEN [decision |-> "allow", reason |-> "approved", request_id |-> rid,
          rule_id |-> Get(orig, "rule_id", ""),
          rule_name |-> Get(orig, "rule_name", ""),
          help_url |-> "", help_text |-> "",
          latency_ms |-> Get(orig, "latency_ms", "0")]
    ELSE [NoFields EXCEPT !.decision = "allow", !.reason = "approved",
                          !.request_id = rid]

\* the poller's result on status denied / deny
Denied(im, rid, orig, status_data) ==
    IF im = "sdk"
    THEN [decision |-> "deny",
          reason |-> Get(status_data, "reason", "denied by reviewer"),
          request_id |-> rid,
          rule_id |-> Get(orig, "rule_id", ""),
          rule_name |-> Get(orig, "rule_name", ""),
          help_url |-> Get(orig, "help_url", ""),
          help_text |-> Get(orig, "help_text", ""),
          latency_ms |-> Get(orig, "latency_ms", "0")]
    ELSE [NoFields EXCEPT !.decision = "deny",
                          !.reason = Get(status_data, "reason",
                                         "denied by reviewer"),
                          !.request_id = rid,
                          !.help_text = Get(orig, "help_text", "")]

\* the end of the polling loop without a terminal status
TimeoutOutcome(im, rid) ==
    IF im = "sdk"
    THEN Raise(ApprovalTimeoutError(rid))
    ELSE Return([NoFields EXCEPT
                    !.decision = "deny",
                    !.reason = "approval timeout after "
                               \o ToString(MaxPolls * PollInterval) \o "s",
                    !.request_id = rid])

\* variant: check catches PolicyDeniedError only and lets the rest through
CheckResultPropagates(o) ==
    IF o.kind = "raise"
    THEN IF o.value.type = "PolicyDeniedError" THEN "false" ELSE "raise"
    ELSE IF Get(o.value, "decision", "allow") = "allow" THEN "true"
    ELSE "false"

\* variant: false for a deny, true for anything else
CheckResultDenyOnly(o) ==
    IF o.kind = "raise" THEN "true"
    ELSE IF Get(o.value, "decision", "allow") = "deny" THEN "false"
    ELSE "true"

\* check(): evaluate with raise_on_deny=False inside try/except Exception
CheckResult(o) ==
    IF o.kind = "raise" THEN "true"
    ELSE IF Get(o.value, "decision", "allow") = "allow" THEN "true"
    ELSE "false"

\* the end of a call: what evaluate gave and, for check, what check returns
Complete(op, o) ==
    [kind |-> o.kind, value |-> o.value,
     check |-> IF op = "check" THEN CheckResult(o) ELSE "n/a"]

----------------------------------------------------------------------------
(* The interception adapters of the runtime bootstrap: the wrappers put in   *)
(* place of subprocess.run/Popen/call/check_call/check_output, os.system,  *)
(* builtins.open, urllib's urlopen and the methods of requests and httpx   *)

\* t occurs in s
Contains(s, t) ==
    \E i \in 1..(Len(s) - Len(t) + 1) : SubSeq(s, i, i + Len(t) - 1) = t

\* s.startswith(t)
StartsWith(s, t) == Len(s) >= Len(t) /\ SubSeq(s, 1, Len(t)) = t

\* " ".join(words)
RECURSIVE Join(_)
Join(words) ==
    IF words = <<>> THEN ""
    ELSE IF Tail(words) = <<>> THEN Head(words)
    ELSE Head(words) \o " " \o Join(Tail(words))

\* method.upper(), for the methods of _REQUESTS_METHODS and _HTTPX_METHODS
Upper(method) ==
    CASE method = "get" -> "GET"
      [] method = "post" -> "POST"
      [] method = "put" -> "PUT"
      [] method = "delete" -> "DELETE"
      [] method = "patch" -> "PATCH"
      [] method = "head" -> "HEAD"
      [] method = "options" -> "OPTIONS"

\* _SKIP_PATH_PREFIXES, _SKIP_PATH_CONTAINS, and the directory of the bootstrap
SkipPathPrefixes == {"/dev/", "/proc/", "/sys/"}

SkipPathContains == {".pyc", "__pycache__", "site-packages"}

BootstrapDir == "/opt/sentinelgate/bootstrap"

\* the paths _sg_open hands to the original open without asking
SkipPath(path) ==
    \/ \E prefix \in SkipPathPrefixes : StartsWith(path, prefix)
    \/ \E pattern \in SkipPathContains : Contains(path, pattern)
    \/ StartsWith(path, BootstrapDir)

\* the access type _sg_open derives from the mode
Access(mode) ==
    IF \E m \in {"w", "a", "x"} : Contains(mode, m)
    THEN IF Contains(mode, "+") THEN "readwrite" ELSE "write"
    ELSE IF Contains(mode, "+") THEN "readwrite"
    ELSE "read"

\* A call at an instrumented site: the wrapper called (subprocess stands for
\* the five wrappers built on _check_subprocess_decision), the type of its
\* first argument (a str, a list, bytes, or none), the argument as words (the
\* command and its arguments, the path, the URL) and, for open, the mode, for
\* requests and httpx, the method
SiteInput(adapter, given, words, option) ==
    [adapter |-> adapter, given |-> given, words |-> words, option |-> option]

NoInput == SiteInput("none", "none", <<>>, "")

SiteInputs ==
    {SiteInput("subprocess", "list", <<"ls">>, ""),
     SiteInput("subprocess", "list", <<>>, ""),
     SiteInput("os.system", "str", <<"rm", "-rf">>, ""),
     SiteInput("os.system", "bytes", <<"rm", "-rf">>, ""),
     SiteInput("open", "str", <<"/etc/passwd">>, "w"),
     SiteInput("open", "str", <<"/dev/null">>, "w"),
     SiteInput("urlopen", "str", <<"https://example.com/">>, ""),
     SiteInput("urlopen", "none", <<>>, ""),
     SiteInput("requests", "str", <<"https://example.com/">>, "get"),
     SiteInput("httpx", "str", <<"https://example.com/">>, "get"),
     SiteInput("httpx.async", "str", <<"https://example.com/">>, "get")}

\* cmd_name of _extract_command and of _sg_os_system: the first word; of a
\* str without words, the str itself
CmdName(i) ==
    IF i.words # <<>> THEN Head(i.words)
    ELSE IF i.given = "str" THEN Join(i.words)
    ELSE ""

\* does the wrapper reach _client.evaluate?  _check_subprocess_decision
\* returns early without a command name, _sg_os_system asks for a str command
\* only, _sg_open and _sg_urlopen pass a missing argument on, _sg_open skips
\* the system paths
Intercepted(i) ==
    CASE i.adapter = "subprocess" -> i.given # "none" /\ CmdName(i) # ""
      [] i.adapter = "os.system" -> i.given = "str"
      [] i.adapter = "open" -> i.given # "none" /\ ~SkipPath(Join(i.words))
      [] i.adapter = "urlopen" -> i.given # "none"
      [] OTHER -> TRUE

\* the action descriptor the wrapper hands to evaluate
SiteAction(i) ==
    CASE i.adapter \in {"subprocess", "os.system"} ->
             [action_type |-> "command_exec", action_name |-> CmdName(i),
              arguments |-> << <<"args", List(i.words)>>,
                               <<"full_command", Str(Join(i.words))>> >>]
      [] i.adapter = "open" ->
             [action_type |-> "file_access", action_name |-> "open",
              arguments |-> << <<"path", Str(Join(i.words))>>,
                               <<"mode", Str(i.option)>>,
                               <<"access", Str(Access(i.option))>> >>]
      [] i.adapter = "urlopen" ->
             [action_type |-> "http_request", action_name |-> "URLOPEN",
              arguments |-> << <<"url", Str(Join(i.words))>> >>]
      [] OTHER ->
             [action_type |-> "http_request", action_name |-> Upper(i.option),
              arguments |-> << <<"url", Str(Join(i.words))>>,
                               <<"headers", Dict(<<>>)>> >>]

\* the inputs that reach evaluate, and the action of each input
InterceptedInputs == {i \in SiteInputs : Intercepted(i)}

SiteActions == [i \in SiteInputs |-> SiteAction(i)]

\* variant: no decision blocks
BlocksNever(decision) == FALSE

\* if decision == "deny": the one decision on which a wrapper blocks
Blocks(decision) == decision = "deny"

\* variant: the message without the help_text
DeniedMessageNoHelp(result) ==
    "SentinelGate: Action denied - " \o Get(result, "reason", "policy denied")

\* the message of the PermissionError a wrapper raises on a deny
DeniedMessage(result) ==
    "SentinelGate: Action denied - " \o Get(result, "reason", "policy denied")
    \o (IF Get(result, "help_text", "") # ""
        THEN ". " \o Get(result, "help_text", "") ELSE "")

----------------------------------------------------------------------------
(* State *)

\* what a call has done so far; found and cached describe the cache as the
\* call met it, the rest counts the requests, sleeps, warnings and audit
\* events; clean says that every status answer short of a terminal one was
\* "pending", terminal is the terminal status received, poller the state of
\* the approval poller; seen, stored, evicted, lru and spared describe the
\* cache at the lookup and at the store; cancelled says that the caller gave
\* the call up while it polled, late counts the status requests sent since
\* (2 stands for "2 or more"); erred says that a status request failed
NewStats ==
    [found |-> "absent", cached |-> NoResponse, hit |-> FALSE, failed |-> FALSE,
     evalReqs |-> 0, attempt |-> 0, waits |-> 0, polls |-> 0, clean |-> TRUE,
     poller |-> "None", terminal |-> "", audits |-> 0, warnings |-> 0,
     seen |-> 0, stored |-> FALSE, evicted |-> {}, lru |-> {}, spared |-> FALSE,
     cancelled |-> FALSE, late |-> 0, erred |-> FALSE]

NoCall == [op |-> "evaluate", action |-> ActLs, raise_on_deny |-> FALSE]

\* no flush in progress; last is how the latest flush of the thread ended,
\* mark the number of events buffered before it began, during the number
\* of events buffered while it ran
NoFlush == [pc |-> "idle", events |-> <<>>, last |-> "none", mark |-> 0,
            during |-> 0]

\* no call at an instrumented site so far; pc is the position in the wrapper,
\* evaluated says that evaluate was called and came back (with a decision or
\* an error), ran that the original operation was invoked, error is the
\* message of the error the caller got
NoSite == [pc |-> "idle", input |-> NoInput, evaluated |-> FALSE,
           ran |-> FALSE, error |-> Absent]

InitWith(ts) ==
    /\ impl \in Impls
    /\ fail_mode \in FailModes
    /\ threads = ts
    /\ cache = <<>>
    /\ cache_lock = "free"
    /\ accessed = <<>>
    /\ audit_buffer = <<>>
    /\ submitted = 0
    /\ flush = [f \in Flushers |-> NoFlush]
    /\ delivered = <<>>
    /\ pc = [c \in ts |-> "idle"]
    /\ call = [c \in ts |-> NoCall]
    /\ original_response = [c \in ts |-> NoResponse]
    /\ outcome = [c \in ts |-> NoOutcome]
    /\ stats = [c \in ts |-> NewStats]
    /\ site = [c \in ts |-> NoSite]

\* no cache key computed for the probe
NoKey == <<"", "", "<none>">>

NoProbe == [A |-> NoCall.action, B |-> NoCall.action, keyA |-> NoKey,
            keyB |-> NoKey]

Init == InitWith({"c1"}) /\ probe = NoProbe

\* the cache entry of key k as a lookup meets it
Found(c, k) ==
    IF k \notin Keys(c) THEN "absent"
    ELSE IF c[IndexOf(c, k)].age < CacheTTL THEN "fresh" ELSE "expired"

\* variant: a lookup that never finds anything
HitNever(c, k) == FALSE

\* the lookup under the cache lock: a hit needs the key and an unexpired entry
Hit(c, k) == k \in Keys(c) /\ Fresh(c[IndexOf(c, k)])

\* the cache after the lookup: a hit promotes the entry, an expired one goes
Lookup(c, k) ==
    IF Hit(c, k) THEN MoveToEnd(c, k)
    ELSE IF k \in Keys(c) THEN Remove(c, k)
    ELSE c

\* variant: the lock is not waited for
LockIgnored(l) == TRUE

\* with self._cache_lock: the block is entered when nobody holds the lock
CanLock(l) == l = "free"

\* variant: the lock taken for the lookup is kept by the call
LockKeptAfterLookup(c) == c

\* the lock at the end of the lookup: the with block is left, by the return
\* of a hit or at its end, and the lock is released
LockAfterLookup(c) == "free"

\* the holder of the lock between the assignment and the eviction loop
LockInStore(c) == c

\* a call ends
Finish(c, o) ==
    /\ pc' = [pc EXCEPT ![c] = "done"]
    /\ outcome' = [outcome EXCEPT ![c] = Complete(call[c].op, o)]

----------------------------------------------------------------------------
(* evaluate, step by step *)

\* evaluate(...) / check(...) is called: cache key and lookup under the lock.
\* check forces raise_on_deny=False; the runtime client has no such argument
\* and no check.
Begin(c, op, a, rod) ==
    /\ c \in threads
    /\ pc[c] \in {"idle", "done"}
    /\ op = "check" => ~rod
    /\ impl = "runtime" => op = "evaluate" /\ ~rod
    /\ CanLock(cache_lock)
    /\ LET k == CacheKey(a)
           h == Hit(cache, k)
           st == [NewStats EXCEPT
                    !.found = Found(cache, k),
                    !.cached = IF Found(cache, k) = "fresh"
                               THEN cache[IndexOf(cache, k)].value
                               ELSE NoResponse,
                    !.hit = h,
                    !.seen = Len(cache)]
       IN  /\ call' = [call EXCEPT ![c] =
                          [op |-> op, action |-> a, raise_on_deny |-> rod]]
           /\ stats' = [stats EXCEPT ![c] = st]
           /\ cache' = Lookup(cache, k)
           /\ accessed' = Prune(IF Found(cache, k) = "fresh"
                                THEN Touch(accessed, k) ELSE accessed,
                                Lookup(cache, k))
           /\ original_response' = [original_response EXCEPT ![c] = NoResponse]
           /\ IF h
              THEN /\ pc' = [pc EXCEPT ![c] = "done"]
                   /\ outcome' = [outcome EXCEPT ![c] =
                         Complete(op, Return(cache[IndexOf(cache, k)].value))]
              ELSE /\ pc' = [pc EXCEPT ![c] = "request"]
                   /\ outcome' = [outcome EXCEPT ![c] = NoOutcome]
    /\ cache_lock' = LockAfterLookup(c)
    /\ UNCHANGED <<impl, fail_mode, threads, audit_buffer, submitted,
                   flush_vars>>

\* evaluate or check called by the program itself, not through an adapter
Call(c, op, a, rod) == Begin(c, op, a, rod) /\ UNCHANGED <<site, probe>>

\* the evaluation request fails: no connection, timeout, HTTP error, or a body
\* that is not JSON (everything the try block of evaluate catches)
RequestFails(c) ==
    /\ pc[c] = "request"
    /\ MayFail(call[c].action)
    /\ LET ev == FailAudit(impl, fail_mode, call[c].action, submitted + 1)
       IN  /\ Len(audit_buffer) + Len(ev) <= MaxAudit
           /\ submitted + Len(ev) <= MaxEvents
           /\ audit_buffer' = audit_buffer \o ev
           /\ submitted' = submitted + Len(ev)
           /\ stats' = [stats EXCEPT
                           ![c].evalReqs = @ + 1,
                           ![c].failed = TRUE,
                           ![c].audits = @ + Len(ev),
                           ![c].warnings = @ + FailWarnings(fail_mode)]
    /\ Finish(c, FailOutcome(impl, fail_mode))
    /\ UNCHANGED <<impl, fail_mode, threads, cache, cache_lock, cache_history,
                   flush_vars, site, call, original_response>>

\* the evaluation request of c fails; nothing else happens
TransportFail(c) == RequestFails(c) /\ UNCHANGED probe

\* variant: an iteration of the polling loop begins with its status request
LoopTopPolls == "poll"

\* where an iteration of _poll_approval begins: time.sleep(poll_interval) comes
\* first
LoopTop == "sleep"

\* after the cache block: "Raise on deny if configured", else return resp_data
AfterStore(c, r) ==
    IF DecisionOf(r) = "deny" /\ RaisesOnDeny(impl, call[c].raise_on_deny)
    THEN Finish(c, Raise(PolicyDeniedError(r)))
    ELSE Finish(c, Return(r))

\* the server answers the evaluation request with resp_data = r; an answer
\* that is cached enters the block under the cache lock and is assigned
Respond(c, r) ==
    /\ pc[c] = "request"
    /\ r \in ServerAnswers(call[c].action)
    /\ stats' = [stats EXCEPT
                    ![c].evalReqs = @ + 1,
                    ![c].poller = IF r # NotAnObject
                                     /\ DecisionOf(r) = "approval_required"
                                     /\ Truthy(Get(r, "request_id", ""))
                                  THEN "Pending" ELSE @]
    /\ original_response' = [original_response EXCEPT ![c] = r]
    /\ IF r = NotAnObject
       THEN /\ Finish(c, Raise(AttributeError))
            /\ UNCHANGED <<cache, cache_lock, cache_history>>
       ELSE IF DecisionOf(r) = "approval_required"
       THEN /\ UNCHANGED <<cache, cache_lock, cache_history>>
            /\ IF Truthy(Get(r, "request_id", ""))
               THEN /\ pc' = [pc EXCEPT ![c] = LoopTop]
                    /\ UNCHANGED outcome
               ELSE Finish(c, Return(r))
       ELSE IF Cacheable(DecisionOf(r))
       THEN /\ CanLock(cache_lock)
            /\ cache' = Insert(cache, CacheKey(call[c].action), r)
            /\ cache_lock' = LockInStore(c)
            /\ accessed' = Touch(accessed, CacheKey(call[c].action))
            /\ pc' = [pc EXCEPT ![c] = "evict"]
            /\ UNCHANGED outcome
       ELSE /\ UNCHANGED <<cache, cache_lock, cache_history>>
            /\ AfterStore(c, r)
    /\ UNCHANGED <<impl, fail_mode, threads, audit_buffer, submitted,
                   flush_vars, site, call>>

\* the server answers c with r; nothing else happens
ServerRespond(c, r) == Respond(c, r) /\ UNCHANGED probe

\* the rest of the block under the cache lock: the eviction loop; the lock
\* is released, and evaluate goes on to its end
EvictLoop(c) ==
    /\ pc[c] = "evict"
    /\ cache' = Evict(cache)
    /\ cache_lock' = "free"
    /\ accessed' = Prune(accessed, Evict(cache))
    /\ stats' = [stats EXCEPT
           ![c].stored = TRUE,
           ![c].evicted = Keys(cache) \ Keys(Evict(cache)),
           ![c].lru = IF Len(cache) > CacheMaxSize
                      THEN {Head(accessed)} ELSE {},
           ![c].spared = Spared(cache, Evict(cache))]
    /\ AfterStore(c, original_response[c])
    /\ UNCHANGED <<impl, fail_mode, threads, audit_buffer, submitted,
                   flush_vars, site, call, original_response>>

\* c finishes its store; nothing else happens
StoreEvict(c) == EvictLoop(c) /\ UNCHANGED probe

----------------------------------------------------------------------------
(* _poll_approval *)

\* variant: one iteration too many
MorePollsInclusive(attempt) == attempt <= MaxPolls

\* variant: a loop without a budget
MorePollsForever(attempt) == TRUE

\* for _ in range(max_polls): is there another iteration?
MorePolls(attempt) == attempt < MaxPolls

\* variant: every status that is neither pending nor a refusal counts as an
\* approval
IsApprovedByDefault(status) == status \notin {"pending", "denied", "deny"}

\* variant: only the status "allow" counts as an approval
IsApprovedAllowOnly(status) == status = "allow"

\* the status strings that end the polling
IsApproved(status) == status \in {"approved", "allow"}

IsDenied(status) == status \in {"denied", "deny"}

\* the top of a loop iteration: time.sleep(poll_interval)
Sleep(c) ==
    /\ pc[c] = "sleep"
    /\ pc' = [pc EXCEPT ![c] = "poll"]
    /\ stats' = [stats EXCEPT ![c].attempt = @ + 1, ![c].waits = @ + 1]
    /\ cache' = Elapse(cache, PollInterval)
    /\ UNCHANGED <<impl, fail_mode, threads, cache_lock, cache_history,
                   audit_buffer, submitted, flush_vars, site, call,
                   original_response, outcome>>

\* c sleeps before its status request; nothing else happens
PollSleep(c) == Sleep(c) /\ UNCHANGED probe

\* the iteration ends without a terminal status: next iteration, or the end
\* of the loop
NextAttempt(c) ==
    IF MorePolls(stats[c].attempt)
    THEN /\ pc' = [pc EXCEPT ![c] = LoopTop]
         /\ UNCHANGED outcome
    ELSE Finish(c, TimeoutOutcome(impl,
                       Get(original_response[c], "request_id", "")))

\* variant: the poller's allow is stored like a direct one
AfterPollStored(c, k, v) == Put(c, k, v)

\* the cache after `return self._poll_approval(...)`: evaluate returns the
\* poller's result before its cache block, the cache stays as it is
AfterPoll(c, k, v) == c

\* the status request is answered with status_data = s
StatusAnswer(c, s) ==
    /\ pc[c] = "poll"
    /\ s \in StatusPayloads
    /\ LET status == Get(s, "status", "")
           rid == Get(original_response[c], "request_id", "")
           orig == original_response[c]
       IN  /\ stats' = [stats EXCEPT
                  ![c].polls = @ + 1,
                  ![c].late = IF stats[c].cancelled THEN Min(@ + 1, 2) ELSE @,
                  ![c].clean = IF s.status \in {"approved", "allow", "denied",
                                                "deny"}
                               THEN @ ELSE @ /\ s.status = "pending",
                  ![c].terminal = IF s.status \in {"approved", "allow",
                                                   "denied", "deny"}
                                  THEN s.status ELSE @,
                  ![c].poller =
                      IF s.status \in {"approved", "allow"} THEN "Approved"
                      ELSE IF s.status \in {"denied", "deny"} THEN "Denied"
                      ELSE IF stats[c].attempt >= MaxPolls THEN "TimedOut"
                      ELSE @]
           /\ cache' = IF IsApproved(status)
                       THEN AfterPoll(cache, CacheKey(call[c].action),
                                      Approved(impl, rid, orig))
                       ELSE cache
           /\ IF IsApproved(status)
              THEN Finish(c, Return(Approved(impl, rid, orig)))
              ELSE IF IsDenied(status)
              THEN IF RaisesOnDeny(impl, call[c].raise_on_deny)
                   THEN Finish(c, Raise(PolicyDeniedError(
                                           Denied(impl, rid, orig, s))))
                   ELSE Finish(c, Return(Denied(impl, rid, orig, s)))
              ELSE NextAttempt(c)
    /\ UNCHANGED <<impl, fail_mode, threads, cache_lock, cache_history,
                   audit_buffer, submitted, flush_vars, site, call,
                   original_response>>

\* the status request of c is answered with s; nothing else happens
PollStatus(c, s) == StatusAnswer(c, s) /\ UNCHANGED probe

\* variant: the error ends the call as a failed evaluation request does
OnPollErrorFailFast(c) == Finish(c, FailOutcome(impl, fail_mode))

\* except Exception: continue
OnPollError(c) == NextAttempt(c)

\* the status request fails (transport error, bad JSON, JSON that is no
\* object): except Exception: continue
StatusFails(c) ==
    /\ pc[c] = "poll"
    /\ stats' = [stats EXCEPT
           ![c].polls = @ + 1,
           ![c].erred = TRUE,
           ![c].late = IF stats[c].cancelled THEN Min(@ + 1, 2) ELSE @,
           ![c].clean = FALSE,
           ![c].poller = IF stats[c].attempt >= MaxPolls THEN "TimedOut" ELSE @]
    /\ OnPollError(c)
    /\ UNCHANGED <<impl, fail_mode, threads, cache, cache_lock, cache_history,
                   audit_buffer, submitted, flush_vars, site, call,
                   original_response>>

\* the status request of c fails; nothing else happens
PollError(c) == StatusFails(c) /\ UNCHANGED probe

\* the caller abandons the evaluate that is polling (process-wide shutdown):
\* the signal is raised; the loop of _poll_approval has no statement that
\* reads it, so nothing but the history changes
Cancel(c) ==
    /\ pc[c] \in {"sleep", "poll"}
    /\ ~stats[c].cancelled
    /\ stats' = [stats EXCEPT ![c].cancelled = TRUE]
    /\ UNCHANGED <<impl, fail_mode, threads, cache, cache_lock, cache_history,
                   audit_buffer, submitted, flush_vars, probe, site, pc, call,
                   original_response, outcome>>

----------------------------------------------------------------------------
(* The caller and the dict it was given *)

\* With one caller: the dict returned to c is the very object the cache
\* holds under the key of its call.  On a hit evaluate returns entry[0], after
\* a store it returns resp_data, the object it has just put in the cache;
\* neither is copied.
Aliased(c) ==
    /\ pc[c] = "done"
    /\ outcome[c].kind = "return"
    /\ stats[c].hit \/ stats[c].stored
    /\ CacheKey(call[c].action) \in Keys(cache)

\* what the caller does to the dict: result["decision"] = "deny", ...
Tamper(d) == [d EXCEPT !.decision = "deny", !.reason = "changed by the caller"]

\* the caller of an evaluate that returned modifies the dict it was given;
\* the cache entry that is the same object changes with it
Mutate(c) ==
    /\ pc[c] = "done"
    /\ call[c].op = "evaluate"
    /\ outcome[c].kind = "return"
    /\ outcome[c].value # Tamper(outcome[c].value)
    /\ outcome' = [outcome EXCEPT ![c].value = Tamper(@)]
    /\ cache' = IF Aliased(c)
                THEN [cache EXCEPT
                         ![IndexOf(cache, CacheKey(call[c].action))].value =
                             Tamper(@)]
                ELSE cache
    /\ UNCHANGED <<impl, fail_mode, threads, cache_lock, cache_history,
                   audit_buffer, submitted, flush_vars, probe, site, pc, call,
                   original_response, stats>>

----------------------------------------------------------------------------
(* The wrappers at the instrumented call sites (runtime client) *)

\* the program calls an instrumented operation: the wrapper builds the action
\* and calls evaluate, or hands the call to the original operation at once
SiteCall(c, i) ==
    /\ impl = "runtime"
    /\ i \in SiteInputs
    /\ site[c].pc # "called"
    /\ IF i \in InterceptedInputs
       THEN /\ Begin(c, "evaluate", SiteActions[i], FALSE)
            /\ site' = [site EXCEPT ![c] =
                   [pc |-> "called", input |-> i, evaluated |-> FALSE,
                    ran |-> FALSE, error |-> Absent]]
            /\ UNCHANGED probe
       ELSE /\ pc[c] \in {"idle", "done"}
            /\ site' = [site EXCEPT ![c] =
                   [pc |-> "returned", input |-> i, evaluated |-> FALSE,
                    ran |-> TRUE, error |-> Absent]]
            /\ UNCHANGED <<impl, fail_mode, threads, cache, cache_lock,
                           cache_history, audit_buffer, submitted, flush_vars,
                           probe, pc, call, original_response, outcome, stats>>

\* evaluate is over: an error it raised goes on to the caller of the wrapper;
\* on a deny the wrapper raises PermissionError; on anything else it calls the
\* original operation
SiteReturn(c) ==
    /\ site[c].pc = "called"
    /\ pc[c] = "done"
    /\ LET o == outcome[c]
           blocked == o.kind = "return"
                      /\ Blocks(Get(o.value, "decision", "allow"))
       IN  site' = [site EXCEPT ![c] =
               [@ EXCEPT !.pc = "returned",
                         !.evaluated = TRUE,
                         !.ran = o.kind = "return" /\ ~blocked,
                         !.error = IF o.kind = "raise" THEN o.value.message
                                   ELSE IF blocked THEN DeniedMessage(o.value)
                                   ELSE Absent]]
    /\ UNCHANGED <<impl, fail_mode, threads, cache, cache_lock, cache_history,
                   audit_buffer, submitted, flush_vars, probe, pc, call,
                   original_response, outcome, stats>>

----------------------------------------------------------------------------
(* _audit_buffer_flush (runtime client) *)

\* variant: the batch is copied and the buffer left as it is
BufferAfterTakeKept(buffer) == buffer

\* events = list(self._audit_buffer); self._audit_buffer.clear()
BufferAfterTake(buffer) == <<>>

\* variant: the failure reaches the caller of the flush
FlushFailEndRaises == "raised"

\* except Exception: the batch is put back and the method returns
FlushFailEnd == "swallowed"

\* variant: the batch of a failed flush is dropped
RebufferNothing(events, buffer) == buffer

\* self._audit_buffer = events + self._audit_buffer
Rebuffer(events, buffer) == events \o buffer

\* the first block under the audit lock: nothing to send, or the batch is
\* taken out of the buffer
FlushBegin(f) ==
    /\ impl = "runtime"
    /\ flush[f].pc = "idle"
    /\ IF audit_buffer = <<>>
       THEN /\ flush' = [flush EXCEPT ![f] = [NoFlush EXCEPT !.last = "empty"]]
            /\ UNCHANGED audit_buffer
       ELSE /\ flush' = [flush EXCEPT ![f] =
                   [pc |-> "sending", events |-> audit_buffer, last |-> "none",
                    mark |-> submitted, during |-> 0]]
            /\ audit_buffer' = BufferAfterTake(audit_buffer)
    /\ UNCHANGED <<impl, fail_mode, threads, cache, cache_lock, cache_history,
                   submitted, delivered, probe, site, pc, call, original_response,
                   outcome, stats>>

\* the POST of the batch is answered: the server has the events
FlushSucceed(f) ==
    /\ flush[f].pc = "sending"
    /\ delivered' = delivered \o flush[f].events
    /\ flush' = [flush EXCEPT ![f] =
           [@ EXCEPT !.pc = "idle", !.events = <<>>, !.last = "sent",
                     !.during = submitted - flush[f].mark]]
    /\ UNCHANGED <<impl, fail_mode, threads, cache, cache_lock, cache_history,
                   audit_buffer, submitted, probe, site, pc, call,
                   original_response,
                   outcome, stats>>

\* the POST fails: under the audit lock the batch goes back in front of the
\* buffer
FlushFail(f) ==
    /\ flush[f].pc = "sending"
    /\ audit_buffer' = Rebuffer(flush[f].events, audit_buffer)
    /\ flush' = [flush EXCEPT ![f] =
           [@ EXCEPT !.pc = "idle", !.events = <<>>, !.last = FlushFailEnd,
                     !.during = submitted - flush[f].mark]]
    /\ UNCHANGED <<impl, fail_mode, threads, cache, cache_lock, cache_history,
                   submitted, delivered, probe, site, pc, call, original_response,
                   outcome, stats>>

----------------------------------------------------------------------------
(* Time *)

\* one second passes
Elapsed ==
    /\ cache' = Elapse(cache, 1)
    /\ UNCHANGED <<impl, fail_mode, threads, cache_lock, cache_history,
                   audit_buffer, submitted, flush_vars, site, pc, call,
                   original_response, outcome, stats>>

\* one second passes; nothing else happens
Tick == Elapsed /\ UNCHANGED probe

----------------------------------------------------------------------------

Next ==
    \/ \E c \in threads, op \in {"evaluate", "check"}, a \in Actions,
          rod \in BOOLEAN : Call(c, op, a, rod)
    \/ \E c \in threads : TransportFail(c)
    \/ \E c \in threads, r \in ServerResponses : ServerRespond(c, r)
    \/ \E c \in threads : StoreEvict(c)
    \/ \E c \in threads : PollSleep(c)
    \/ \E c \in threads, s \in StatusPayloads : PollStatus(c, s)
    \/ \E c \in threads : PollError(c)
    \/ Tick

Spec == Init /\ [][Next]_vars

\* evaluate of the action that needs an approval, with a caller that may
\* give up while the poller runs
CancelNext ==
    \/ \E c \in threads, rod \in BOOLEAN : Call(c, "evaluate", ActDeploy, rod)
    \/ \E c \in threads, r \in ServerResponses : ServerRespond(c, r)
    \/ \E c \in threads : StoreEvict(c)
    \/ \E c \in threads : PollSleep(c)
    \/ \E c \in threads, s \in StatusPayloads : PollStatus(c, s)
    \/ \E c \in threads : PollError(c)
    \/ \E c \in threads : Cancel(c)

CancelSpec == Init /\ [][CancelNext]_vars

\* the arguments explored for the cache key: dicts of at most two entries
\* under the names "headers" and "path"; the value of "headers" may be a nested
\* dict, built in either order
HeaderValues ==
    {Str("x"),
     Dict(<< <<"a", "1">>, <<"b", "2">> >>),
     Dict(<< <<"b", "2">>, <<"a", "1">> >>),
     Dict(<< <<"a", "1">>, <<"b", "3">> >>)}

PathValues == {Str("/tmp"), Str("/etc")}

ProbeArguments ==
    {<<>>}
    \cup { << <<"headers", o>> >> : o \in HeaderValues }
    \cup { << <<"path", q>> >> : q \in PathValues }
    \cup { << <<"headers", o>>, <<"path", q>> >> : o \in HeaderValues,
                                                q \in PathValues }
    \cup { << <<"path", q>>, <<"headers", o>> >> : o \in HeaderValues,
                                                q \in PathValues }

Descriptors ==
    [action_type : {"command_exec", "file_access"}, action_name : {"cat"},
     arguments : ProbeArguments]

KeyInit ==
    /\ InitWith({"c1"})
    /\ probe \in [A : Descriptors, B : Descriptors, keyA : {NoKey},
                   keyB : {NoKey}]

\* _cache_key is applied to the two descriptors
ComputeKeys ==
    /\ probe.keyA = NoKey
    /\ probe' = [probe EXCEPT
           !.keyA = CacheKeyOf(probe.A.action_type, probe.A.action_name,
                               probe.A.arguments),
           !.keyB = CacheKeyOf(probe.B.action_type, probe.B.action_name,
                               probe.B.arguments)]
    /\ UNCHANGED <<impl, fail_mode, threads, cache, cache_lock, cache_history,
                   audit_buffer, submitted, flush_vars, pc, call,
                   original_response, outcome, stats, site>>

KeySpec == KeyInit /\ [][ComputeKeys]_vars

\* the runtime client with a caller whose requests may fail and two threads
\* that flush the audit buffer
AuditInit == InitWith({"c1"}) /\ impl = "runtime" /\ probe = NoProbe

AuditNext ==
    \/ \E c \in threads : Call(c, "evaluate", ActLs, FALSE)
    \/ \E c \in threads : TransportFail(c)
    \/ \E c \in threads : ServerRespond(c, RespDeny)
    \/ \E f \in Flushers : FlushBegin(f)
    \/ \E f \in Flushers : FlushSucceed(f)
    \/ \E f \in Flushers : FlushFail(f)

AuditSpec == AuditInit /\ [][AuditNext]_vars

\* two caller threads share the client: their lookups and stores interleave
\* (a call that needs an approval is left waiting; polling is not explored)
ConcInit ==
    InitWith(Callers) /\ impl = "sdk" /\ fail_mode = "open" /\ probe = NoProbe

ConcNext ==
    \/ \E c \in threads, a \in {ActLs, ActDeploy, ActRm} :
          Call(c, "evaluate", a, FALSE)
    \/ \E c \in threads, r \in {RespAllow, RespDeny} : ServerRespond(c, r)
    \/ \E c \in threads : StoreEvict(c)
    \/ Tick

ConcSpec == ConcInit /\ [][ConcNext]_vars

\* one caller that may modify the Decisions it is given
AliasNext ==
    \/ \E c \in threads, a \in {ActLs, ActRm} : Call(c, "evaluate", a, FALSE)
    \/ \E c \in threads : TransportFail(c)
    \/ \E c \in threads, r \in ServerResponses : ServerRespond(c, r)
    \/ \E c \in threads : StoreEvict(c)
    \/ \E c \in threads : Mutate(c)
    \/ Tick

AliasSpec == Init /\ [][AliasNext]_vars

\* identity_roles as evaluate is given it: None, or a list of roles
NoRoles == [given |-> FALSE, roles |-> <<>>]

GivenRoles(roles) == [given |-> TRUE, roles |-> roles]

RoleArguments ==
    {NoRoles, GivenRoles(<<>>), GivenRoles(<<"admin">>),
     GivenRoles(<<"admin", "dev">>)}

\* values of the environment variable SENTINELGATE_IDENTITY_ROLES ("" when
\* it is not set)
RoleEnvironments ==
    {"", ",", " ", "ops", "ops,dev", " ops , dev", "ops,,dev", ", ,"}

\* s.strip(), for the blanks explored
RECURSIVE Strip(_)
Strip(s) ==
    IF s = "" THEN s
    ELSE IF SubSeq(s, 1, 1) = " " THEN Strip(SubSeq(s, 2, Len(s)))
    ELSE IF SubSeq(s, Len(s), Len(s)) = " " THEN Strip(SubSeq(s, 1, Len(s) - 1))
    ELSE s

\* s.split(",")
RECURSIVE SplitComma(_)
SplitComma(s) ==
    IF \E i \in 1..Len(s) : SubSeq(s, i, i) = ","
    THEN LET i == CHOOSE i \in 1..Len(s) :
                      /\ SubSeq(s, i, i) = ","
                      /\ \A j \in 1..(i - 1) : SubSeq(s, j, j) # ","
         IN  <<SubSeq(s, 1, i - 1)>> \o SplitComma(SubSeq(s, i + 1, Len(s)))
    ELSE <<s>>

\* [r.strip() for r in roles_env.split(",") if r.strip()]
RolesOf(roles_env) ==
    LET parts == SplitComma(roles_env)
    IN  SelectSeq([i \in DOMAIN parts |-> Strip(parts[i])], LAMBDA r : r # "")

\* "Resolve identity defaults": the roles of the SDK's request
ResolveRoles(identity_roles, roles_env) ==
    IF identity_roles.given THEN identity_roles.roles
    ELSE IF roles_env # "" THEN RolesOf(roles_env)
    ELSE <<"agent">>

\* body["identity_roles"]; the runtime client always sends ["agent"]
BodyRoles(im, identity_roles, roles_env) ==
    IF im = "sdk" THEN ResolveRoles(identity_roles, roles_env)
    ELSE <<"agent">>

\* no request body built so far
NoBody == [built |-> FALSE, identity_roles |-> <<>>]

RolesInit ==
    /\ InitWith({"c1"})
    /\ probe \in [identity_roles : RoleArguments, roles_env : RoleEnvironments,
                   body : {NoBody}]

\* evaluate builds the body of its evaluation request
BuildBody ==
    /\ ~probe.body.built
    /\ probe' = [probe EXCEPT !.body =
           [built |-> TRUE,
            identity_roles |-> BodyRoles(impl, probe.identity_roles,
                                         probe.roles_env)]]
    /\ UNCHANGED <<impl, fail_mode, threads, cache, cache_lock, cache_history,
                   audit_buffer, submitted, flush_vars, pc, call,
                   original_response, outcome, stats, site>>

RolesSpec == RolesInit /\ [][BuildBody]_vars

\* the runtime client behind its interception adapters: every evaluate is
\* called by a wrapper (none of the actions explored needs an approval)
AdapterInit == InitWith({"c1"}) /\ impl = "runtime" /\ probe = NoProbe

AdapterNext ==
    \/ \E c \in threads, i \in SiteInputs : SiteCall(c, i)
    \/ \E c \in threads : TransportFail(c)
    \/ \E c \in threads, r \in ServerResponses : ServerRespond(c, r)
    \/ \E c \in threads : StoreEvict(c)
    \/ \E c \in threads : SiteReturn(c)

AdapterSpec == AdapterInit /\ [][AdapterNext]_vars

----------------------------------------------------------------------------
(* Properties *)

\* the cache key of the call caller c is in
KeyOfCall(c) == CacheKey(call[c].action)

\* c is the only caller: nobody else touches the cache during its call
Alone(c) == threads = {c}

\* C1: an evaluate whose cache key is in the cache with age < ttl returns the
\* cached decision at once: it sends no evaluation request and no status
\* request, and appends no audit event.
C1_CacheHitNoNetwork ==
    \A c \in threads :
        stats[c].found = "fresh" =>
            /\ pc[c] = "done"
            /\ outcome[c].kind = "return"
            /\ outcome[c].value = stats[c].cached
            /\ stats[c].evalReqs = 0
            /\ stats[c].polls = 0
            /\ stats[c].audits = 0
            /\ stats[c].warnings = 0

C1_Witness ==
    \E c \in threads :
        /\ stats[c].found = "fresh"
        /\ pc[c] = "done"
        /\ call[c].action = ActRmSwapped
        /\ outcome[c].value = RespAllow

\* C2: an evaluate that finds its key cached with age >= ttl does not return
\* the cached decision: the lookup is a miss, the entry is gone from the cache
\* when the call goes on to its request, and the call sends one evaluation
\* request.
C2_ExpiredIsMiss ==
    \A c \in threads :
        stats[c].found = "expired" =>
            /\ ~stats[c].hit
            /\ pc[c] \in {"request", "evict", "sleep", "poll", "done"}
            /\ (pc[c] = "request" /\ Alone(c)) =>
                   /\ KeyOfCall(c) \notin Keys(cache)
                   /\ stats[c].evalReqs = 0
            /\ pc[c] # "request" => stats[c].evalReqs = 1

C2_Witness ==
    \E c \in threads :
        /\ stats[c].found = "expired"
        /\ pc[c] = "done"
        /\ stats[c].evalReqs = 1
        /\ outcome[c].value = RespDeny

\* the server answered the call of c with a deny or an approval_required
ServedNoAllow(c) ==
    /\ original_response[c] \notin {NoResponse, NotAnObject}
    /\ DecisionOf(original_response[c]) \in {"deny", "approval_required"}

\* C3: every cache entry holds an allow decision; a deny or approval_required
\* answer is not stored, so that after such a call the key is not in the cache
\* and the next evaluate of the action has to ask the server again.
C3_OnlyAllowCached ==
    /\ \A i \in 1..Len(cache) : DecisionOf(cache[i].value) = "allow"
    /\ \A c \in threads :
           (pc[c] = "done" /\ ServedNoAllow(c) /\ Alone(c)) =>
               /\ KeyOfCall(c) \notin Keys(cache)
               /\ stats[c].evalReqs = 1

C3_Witness ==
    \E c \in threads :
        /\ pc[c] = "done"
        /\ original_response[c] = RespDeny
        /\ stats[c].found = "expired"
        /\ Len(cache) = 1

\* C4: with fail_mode=open an evaluate whose transport attempt fails returns
\* a decision allow with reason "fail-open", warns once, raises nothing, and
\* the decision is not put in the cache: the key is absent afterwards and no
\* entry ever carries the reason "fail-open".
C4_FailOpen ==
    /\ \A c \in threads :
           (fail_mode = "open" /\ stats[c].failed) =>
               /\ pc[c] = "done"
               /\ outcome[c].kind = "return"
               /\ outcome[c].value.decision = "allow"
               /\ outcome[c].value.reason = "fail-open"
               /\ stats[c].warnings = 1
               /\ stats[c].evalReqs = 1
               /\ Alone(c) => KeyOfCall(c) \notin Keys(cache)
    /\ \A i \in 1..Len(cache) : cache[i].value.reason # "fail-open"

C4_Witness ==
    \E c \in threads :
        /\ fail_mode = "open"
        /\ stats[c].failed
        /\ pc[c] = "done"
        /\ stats[c].found = "expired"
        /\ Len(cache) > 0

\* C5: with fail_mode=closed an evaluate whose transport attempt fails raises
\* the unreachable-server error (ServerUnreachableError in the SDK, the
\* runtime client's PermissionError "server unreachable (fail-closed mode)")
\* and returns no decision.
C5_FailClosed ==
    \A c \in threads :
        (fail_mode = "closed" /\ stats[c].failed) =>
            /\ pc[c] = "done"
            /\ outcome[c].kind = "raise"
            /\ impl = "sdk" => outcome[c].value = ServerUnreachableError
            /\ impl = "runtime" => outcome[c].value = RtUnreachableError
            /\ stats[c].warnings = 0

C5_Witness ==
    \E c \in threads :
        /\ fail_mode = "closed"
        /\ stats[c].failed
        /\ pc[c] = "done"
        /\ call[c].op = "evaluate"
        /\ outcome[c].kind = "raise"

\* the polling of c used up its attempts without a terminal status
BudgetExhausted(c) ==
    /\ stats[c].polls >= MaxPolls
    /\ stats[c].terminal = ""

\* C6: when the polling exhausts its budget without a terminal status, no
\* entry point tells the caller that the action is permitted: evaluate ends
\* in a raised error or a deny decision, and check does not return true.
C6_TimeoutNeverPermits ==
    \A c \in threads :
        (pc[c] = "done" /\ BudgetExhausted(c)) =>
            /\ \/ outcome[c].kind = "raise"
               \/ /\ outcome[c].kind = "return"
                  /\ DecisionOf(outcome[c].value) = "deny"
            /\ call[c].op = "check" => outcome[c].check # "true"

\* C7: check never raises: it returns true or false, and true whenever an
\* exception was raised on the evaluate path (transport failure in
\* fail_mode=closed, a response that is no object, the poller's timeout).
C7_CheckNeverRaises ==
    \A c \in threads :
        (call[c].op = "check" /\ pc[c] = "done") =>
            /\ outcome[c].check \in {"true", "false"}
            /\ outcome[c].kind = "raise" => outcome[c].check = "true"

C7_Witness ==
    \E c \in threads :
        /\ call[c].op = "check"
        /\ pc[c] = "done"
        /\ outcome[c].kind = "raise"
        /\ outcome[c].value = ServerUnreachableError
        /\ outcome[c].check = "true"

\* the status answers of the call of c were pending, pending, approved
PendingPendingApproved(c) ==
    /\ stats[c].polls = 3
    /\ stats[c].clean
    /\ stats[c].terminal = "approved"

\* C8 as stated: after the status answers pending, pending, approved evaluate
\* returns allow with reason "approved" after exactly 2 waits.
C8_AsStated ==
    \A c \in threads :
        PendingPendingApproved(c) =>
            /\ pc[c] = "done"
            /\ outcome[c].kind = "return"
            /\ outcome[c].value.decision = "allow"
            /\ outcome[c].value.reason = "approved"
            /\ stats[c].waits = 2

\* C8, amended: after the status answers pending, pending, approved evaluate
\* returns allow with reason "approved" after exactly 3 waits, one before
\* each of the three status requests.
C8_ApprovedAfterThreeWaits ==
    \A c \in threads :
        PendingPendingApproved(c) =>
            /\ pc[c] = "done"
            /\ outcome[c].kind = "return"
            /\ outcome[c].value.decision = "allow"
            /\ outcome[c].value.reason = "approved"
            /\ outcome[c].value.request_id = original_response[c].request_id
            /\ stats[c].waits = 3

C8_Witness ==
    \E c \in threads :
        /\ PendingPendingApproved(c)
        /\ pc[c] = "done"
        /\ call[c].op = "evaluate"
        /\ stats[c].waits = 3

\* the status answers of the call of c were 30 times pending
ThirtyPending(c) ==
    /\ stats[c].polls = 30
    /\ stats[c].clean
    /\ stats[c].terminal = ""

StepOf(c) ==
    \/ TransportFail(c)
    \/ \E r \in ServerResponses : ServerRespond(c, r)
    \/ StoreEvict(c)
    \/ PollSleep(c)
    \/ \E s \in StatusPayloads : PollStatus(c, s)
    \/ PollError(c)

\* C10: an evaluate call sends at most one evaluation request and at most 30
\* status requests (after at most 30 waits), whatever the server does; a
\* call that is not over can always take its next step, and a call that
\* polled ends with the poller Approved, Denied or TimedOut.
C10_BoundedAndTerminal ==
    \A c \in threads :
        /\ stats[c].evalReqs <= 1
        /\ stats[c].polls <= 30
        /\ stats[c].waits <= 30
        /\ stats[c].polls <= stats[c].waits
        /\ pc[c] \in {"request", "evict", "sleep", "poll"} => ENABLED StepOf(c)
        /\ pc[c] \in {"sleep", "poll"} => stats[c].poller = "Pending"
        /\ (pc[c] = "done" /\ stats[c].waits > 0) =>
               stats[c].poller \in {"Approved", "Denied", "TimedOut"}

C10_Witness ==
    \E c \in threads :
        /\ pc[c] = "done"
        /\ stats[c].polls = 30
        /\ ~stats[c].clean
        /\ stats[c].poller = "TimedOut"

----------------------------------------------------------------------------

DenyFields == {"rule_id", "rule_name", "reason", "help_url", "help_text"}

\* C13: when the outcome of evaluate is Deny (the server's answer, or the
\* reviewer's through the poller): with raise_on_deny=true PolicyDeniedError
\* is raised and its rule_id, rule_name, reason, help_url and help_text are
\* those of the response; with raise_on_deny=false the Deny decision is
\* returned and nothing is raised.
C13_DenyRaisesOrReturns ==
    \A c \in threads :
        /\ (pc[c] = "done" /\ original_response[c] = RespDeny) =>
               IF call[c].raise_on_deny
               THEN /\ outcome[c].kind = "raise"
                    /\ outcome[c].value.type = "PolicyDeniedError"
                    /\ \A f \in DenyFields : outcome[c].value[f] = RespDeny[f]
               ELSE /\ outcome[c].kind = "return"
                    /\ outcome[c].value = RespDeny
        /\ (pc[c] = "done" /\ stats[c].poller = "Denied") =>
               IF call[c].raise_on_deny
               THEN /\ outcome[c].kind = "raise"
                    /\ outcome[c].value.type = "PolicyDeniedError"
                    /\ \A f \in DenyFields \ {"reason"} :
                           outcome[c].value[f] = original_response[c][f]
                    /\ outcome[c].value.reason \in
                           {"too risky", "denied by reviewer"}
               ELSE /\ outcome[c].kind = "return"
                    /\ DecisionOf(outcome[c].value) = "deny"

C13_Witness ==
    \E c \in threads :
        /\ pc[c] = "done"
        /\ original_response[c] = RespDeny
        /\ call[c].raise_on_deny
        /\ outcome[c].kind = "raise"
        /\ outcome[c].value.rule_id = "rule-1"

\* C11: once the cancellation signal is raised while evaluate polls, the
\* poller notices it between attempts: at most the attempt in progress still
\* sends its status request, the rest of the budget is not spent.
C11_CancelStopsPolling ==
    \A c \in threads : stats[c].cancelled => stats[c].late <= 1

\* C14: a store that leaves the cache within its capacity evicts nothing; a
\* store that makes it one entry too many evicts exactly one entry, the one
\* whose last access (store or cache hit) is the oldest.  An entry that was
\* read by a cache hit after the others were stored is therefore not the one
\* evicted.
C14_EvictsLeastRecentlyAccessed ==
    \A c \in threads :
        stats[c].stored =>
            /\ stats[c].evicted = stats[c].lru
            /\ Cardinality(stats[c].evicted) <= 1
            /\ KeyOfCall(c) \notin stats[c].evicted

\* the (max+1)-th key was stored after a hit on an entry stored earlier than
\* another one: the entry evicted is the younger one, not the one that was hit
C14_Witness ==
    \E c \in threads :
        /\ stats[c].stored
        /\ stats[c].evicted # {}
        /\ stats[c].evicted = stats[c].lru
        /\ stats[c].spared

\* C15: with concurrent callers, every lookup and every store is one block
\* under the cache lock: whenever the lock is free the cache holds at most
\* cache_max_size entries, the lock is held exactly while a store is between
\* its assignment and its eviction, and no lookup has met a cache with more
\* than cache_max_size entries.
C15_CacheBlocksAtomic ==
    /\ cache_lock = "free" => Len(cache) <= CacheMaxSize
    /\ Len(cache) <= CacheMaxSize + 1
    /\ \A c \in threads :
           /\ pc[c] = "evict" <=> cache_lock = c
           /\ stats[c].seen <= CacheMaxSize

\* one caller is between its assignment and its eviction, the cache one
\* entry too large, while the other caller waits for its answer
C15_Witness ==
    \E c, d \in threads :
        /\ c # d
        /\ cache_lock = c
        /\ Len(cache) = CacheMaxSize + 1
        /\ pc[d] = "request"

\* Python's == on argument values: strings by their characters, dicts by
\* their items whatever the insertion order
SameValue(x, y) ==
    /\ x.kind = y.kind
    /\ x.str = y.str
    /\ {x.items[i] : i \in DOMAIN x.items} = {y.items[i] : i \in DOMAIN y.items}

\* the same set of argument entries
SameArguments(p, q) ==
    /\ \A i \in DOMAIN p : \E j \in DOMAIN q :
           p[i][1] = q[j][1] /\ SameValue(p[i][2], q[j][2])
    /\ \A j \in DOMAIN q : \E i \in DOMAIN p :
           p[i][1] = q[j][1] /\ SameValue(p[i][2], q[j][2])

SameDescriptor(a, b) ==
    /\ a.action_type = b.action_type
    /\ a.action_name = b.action_name
    /\ SameArguments(a.arguments, b.arguments)

\* every argument value is a string
Flat(a) == \A i \in DOMAIN a.arguments : a.arguments[i][2].kind = "str"

\* C16: two action descriptors with the same action_type, the same
\* action_name and the same set of argument entries have the same cache key,
\* whatever the order in which their arguments were inserted.
C16_SameArgumentsSameKey ==
    (probe.keyA # NoKey /\ SameDescriptor(probe.A, probe.B)) =>
        probe.keyA = probe.keyB

\* when no argument value is a nested dict, the order of insertion does not
\* reach the key: equal descriptors have equal keys, and different ones
\* different keys
FlatArgumentsSameKey ==
    (probe.keyA # NoKey /\ Flat(probe.A) /\ Flat(probe.B)) =>
        (SameDescriptor(probe.A, probe.B) <=> probe.keyA = probe.keyB)

FlatArgumentsReordered ==
    /\ probe.keyA # NoKey
    /\ Flat(probe.A)
    /\ probe.A # probe.B
    /\ probe.keyA = probe.keyB

\* the call of c ended in a transport failure and left exactly one audit
\* event, the last of the buffer, with the decision of the fail mode
OneFailEvent(c) ==
    /\ stats[c].audits = 1
    /\ audit_buffer # <<>>
    /\ LET e == audit_buffer[Len(audit_buffer)]
       IN  /\ e.action_name = call[c].action.action_name
           /\ fail_mode = "closed" =>
                  /\ e.decision = "deny" /\ e.reason = "fail-closed"
                  /\ outcome[c].kind = "raise"
           /\ fail_mode = "open" =>
                  /\ e.decision = "allow" /\ e.reason = "fail-open"
                  /\ outcome[c].kind = "return"

\* C17: an evaluate appends an audit event exactly when it decides locally
\* after a transport failure: one event then (deny / "fail-closed" with the
\* error raised, or allow / "fail-open"), and none when the call is resolved
\* by a cache hit, by the server's decision or by the approval poller.
C17_AuditExactlyOnLocalDecision ==
    \A c \in threads :
        pc[c] = "done" =>
            IF stats[c].failed THEN OneFailEvent(c) ELSE stats[c].audits = 0

\* the same for the runtime client alone, the one that has an audit buffer
RuntimeAuditOnLocalDecision ==
    impl = "runtime" => C17_AuditExactlyOnLocalDecision

RuntimeAuditOnLocalDecisionWitness ==
    \E c \in threads :
        /\ impl = "runtime"
        /\ fail_mode = "closed"
        /\ pc[c] = "done"
        /\ stats[c].failed
        /\ Len(audit_buffer) = 1

\* the timestamps of the events of a sequence
Stamps(events) == {events[i].timestamp : i \in DOMAIN events}

\* the events of the batches being sent
InFlight == UNION {Stamps(flush[f].events) : f \in Flushers}

\* C18: a flush that succeeds removes from the audit buffer exactly the
\* events of the batch it delivered: no delivered event is still buffered,
\* and every event buffered so far that was neither delivered nor is in a
\* batch being sent is in the buffer, once; so the events appended while
\* the flush was in progress are still there when it ends.
C18_FlushRemovesOnlyBatch ==
    /\ Stamps(delivered) \cap Stamps(audit_buffer) = {}
    /\ Stamps(delivered) \cap InFlight = {}
    /\ Stamps(audit_buffer) \cup Stamps(delivered) \cup InFlight = 1..submitted
    /\ Cardinality(Stamps(audit_buffer)) = Len(audit_buffer)
    /\ Cardinality(Stamps(delivered)) = Len(delivered)

\* a flush delivered the first event; the event appended while it ran is the
\* whole buffer
C18_Witness ==
    \E f \in Flushers :
        /\ flush[f].last = "sent"
        /\ flush[f].during = 1
        /\ Stamps(delivered) = {1}
        /\ Stamps(audit_buffer) = {2}

\* C19: whatever the interleaving of appends and flush attempts, overlapping
\* ones included, the audit buffer lists its events in the order in which
\* they were submitted.
C19_BufferInSubmissionOrder ==
    \A i, j \in DOMAIN audit_buffer :
        i < j => audit_buffer[i].timestamp < audit_buffer[j].timestamp

\* with one flushing thread at a time the order is kept
OneFlushKeepsOrder ==
    flush["f2"].last = "none" /\ flush["f2"].pc = "idle" =>
        C19_BufferInSubmissionOrder

\* C20: a flush that fails ends by returning to its caller, with its batch
\* back in the buffer, and the step changes neither the position nor the
\* outcome of any evaluate.
C20_FlushFailureSwallowed ==
    [][\A f \in Flushers :
          (flush[f].pc = "sending" /\ flush'[f].pc = "idle"
             /\ delivered' = delivered) =>
              /\ flush'[f].last = "swallowed"
              /\ Stamps(flush[f].events) \subseteq Stamps(audit_buffer')
              /\ Stamps(audit_buffer) \subseteq Stamps(audit_buffer')
              /\ outcome' = outcome
              /\ pc' = pc]_vars

\* a flush failed while an evaluate was waiting for its answer
C20_Witness ==
    \E f \in Flushers, c \in threads :
        /\ flush[f].last = "swallowed"
        /\ flush[f].pc = "idle"
        /\ audit_buffer # <<>>
        /\ pc[c] = "request"

----------------------------------------------------------------------------

\* the answers to an evaluation request that are no decision: an object
\* without a decision, an unknown decision string, JSON that is no object
\* (a body that is no JSON at all ends in TransportFail)
Malformed(r) == r \in {RespNoDecision, RespUnknown, NotAnObject}

\* C21: an evaluate whose evaluation request is answered by a malformed or
\* unexpected response (no JSON, no object, no decision field, an unknown
\* decision string) raises no unexpected exception and ends as a transport
\* failure does: with the fallback of the fail mode, not with the response
\* taken as the server's decision.
C21_MalformedResolvesToFallback ==
    \A c \in threads :
        (pc[c] = "done" /\ (stats[c].failed \/ Malformed(original_response[c])))
            => /\ outcome[c].kind = FailOutcome(impl, fail_mode).kind
               /\ outcome[c].value = FailOutcome(impl, fail_mode).value
               /\ KeyOfCall(c) \notin Keys(cache)

\* a body that is no JSON is caught with the transport errors and does end in
\* the fallback of the fail mode
NotJsonResolvesToFallback ==
    \A c \in threads :
        (pc[c] = "done" /\ stats[c].failed)
            => /\ outcome[c].kind = FailOutcome(impl, fail_mode).kind
               /\ outcome[c].value = FailOutcome(impl, fail_mode).value

\* the evaluate called by the wrapper of c came back with a deny decision
SiteDenied(c) ==
    /\ outcome[c].kind = "return"
    /\ Get(outcome[c].value, "decision", "allow") = "deny"

\* C22: in every interception adapter, when evaluate returns a deny decision
\* or raises, the original operation is not invoked and the caller gets an
\* error; on a deny its message contains the reason of the decision and, when
\* the help_text is not empty, the help_text; on the fail-closed error it
\* names the fail-closed mode.
C22_DenyBlocksWithMessage ==
    \A c \in threads :
        /\ site[c].pc = "called" => ~site[c].ran
        /\ (site[c].pc = "returned" /\ site[c].evaluated
              /\ (outcome[c].kind = "raise" \/ SiteDenied(c))) =>
               /\ ~site[c].ran
               /\ site[c].error # Absent
               /\ SiteDenied(c) =>
                      /\ Contains(site[c].error,
                                  Get(outcome[c].value, "reason", ""))
                      /\ Contains(site[c].error,
                                  Get(outcome[c].value, "help_text", ""))
               /\ (outcome[c].kind = "raise" /\ stats[c].failed) =>
                      Contains(site[c].error, "fail-closed")

\* the async wrapper of httpx was denied by a decision with a help text
C22_Witness ==
    \E c \in threads :
        /\ site[c].pc = "returned"
        /\ site[c].input.adapter = "httpx.async"
        /\ SiteDenied(c)
        /\ ~site[c].ran
        /\ site[c].error
               = "SentinelGate: Action denied - blocked by policy. ask an admin"

\* a deny without help text gives the message that ends with the reason
DenyWithoutHelpText ==
    \E c \in threads :
        /\ site[c].pc = "returned"
        /\ SiteDenied(c)
        /\ outcome[c].value.help_text = ""
        /\ site[c].error = "SentinelGate: Action denied - blocked by policy"

\* C23: at every instrumented call site the original operation runs only
\* after an evaluate call for that action has returned a decision.
C23_NoActionWithoutDecision ==
    \A c \in threads :
        site[c].ran => /\ site[c].evaluated
                       /\ outcome[c].kind = "return"
                       /\ call[c].action = SiteActions[site[c].input]

\* the calls that reach evaluate do wait for its decision
InterceptedWaitsForDecision ==
    \A c \in threads :
        (site[c].ran /\ site[c].input \in InterceptedInputs) =>
            /\ site[c].evaluated
            /\ outcome[c].kind = "return"
            /\ call[c].action = SiteActions[site[c].input]

\* C24: a status request that fails is swallowed and uses up one attempt:
\* every attempt sends exactly one status request, the poller goes on to the
\* next attempt while it has one left, the call ends as the poller ends (no
\* transport error, no fallback of the fail mode, no warning, no audit
\* event), and no call sends more than 30 status requests.
C24_PollErrorSwallowed ==
    \A c \in threads :
        /\ stats[c].polls <= MaxPolls
        /\ stats[c].attempt <= MaxPolls
        /\ stats[c].polls = IF pc[c] = "poll" THEN stats[c].attempt - 1
                            ELSE stats[c].attempt
        /\ stats[c].erred =>
               /\ ~stats[c].failed
               /\ stats[c].warnings = 0
               /\ stats[c].audits = 0
               /\ (stats[c].terminal = "" /\ stats[c].polls < MaxPolls) =>
                      pc[c] \in {"sleep", "poll"}
               /\ pc[c] = "done" =>
                      /\ stats[c].poller \in {"Approved", "Denied", "TimedOut"}
                      /\ outcome[c].kind = "raise" =>
                             outcome[c].value.type \in
                                 {"PolicyDeniedError", "ApprovalTimeoutError"}
                      /\ stats[c].terminal = "" =>
                             /\ stats[c].polls = MaxPolls
                             /\ outcome[c].kind =
                                    TimeoutOutcome(impl, "").kind

\* a status request failed, the next one was answered "approved"
C24_Witness ==
    \E c \in threads :
        /\ stats[c].erred
        /\ pc[c] = "done"
        /\ stats[c].polls = 2
        /\ stats[c].terminal = "approved"
        /\ outcome[c].kind = "return"
        /\ outcome[c].value.reason = "approved"

\* errors and pending answers used up the 30 attempts
ErrorsUseUpBudget ==
    \E c \in threads :
        /\ stats[c].erred
        /\ pc[c] = "done"
        /\ stats[c].polls = MaxPolls
        /\ stats[c].poller = "TimedOut"

\* the reason the poller gives for the terminal status of the call of c
\* (the status payloads explored give "too risky" with denied, none with deny)
ReviewerReason(c) ==
    IF stats[c].terminal = "denied" THEN "too risky" ELSE "denied by reviewer"

\* what the poller's Decision holds: the returned dict, or the fields of the
\* PolicyDeniedError raised for it
Decided(c) == outcome[c].value

\* C25: the Decision the poller ends with comes from the status and the
\* original response: on approved / allow it is an allow with reason
\* "approved" and the original rule_id and rule_name; on denied / deny it is
\* a deny (raised as PolicyDeniedError when raise_on_deny is set) with the
\* reason of the status payload, or "denied by reviewer", and the original
\* help_text; the terminal status is the answer to the last status request.
C25_TerminalDecisionDerived ==
    \A c \in threads :
        /\ stats[c].terminal # "" => pc[c] = "done"
        /\ stats[c].terminal \in {"approved", "allow"} =>
               /\ outcome[c].kind = "return"
               /\ Decided(c).decision = "allow"
               /\ Decided(c).reason = "approved"
               /\ Decided(c).rule_id = original_response[c].rule_id
               /\ Decided(c).rule_name = original_response[c].rule_name
        /\ stats[c].terminal \in {"denied", "deny"} =>
               /\ IF call[c].raise_on_deny
                  THEN /\ outcome[c].kind = "raise"
                       /\ Decided(c).type = "PolicyDeniedError"
                  ELSE /\ outcome[c].kind = "return"
                       /\ Decided(c).decision = "deny"
               /\ Decided(c).reason = ReviewerReason(c)
               /\ Decided(c).help_text = original_response[c].help_text

\* the same for the SDK alone, whose poller copies rule_id and rule_name
SdkTerminalDecisionDerived == impl = "sdk" => C25_TerminalDecisionDerived

SdkTerminalDecisionDerivedWitness ==
    \E c \in threads :
        /\ impl = "sdk"
        /\ stats[c].terminal = "approved"
        /\ stats[c].polls = 2
        /\ outcome[c].value.rule_id = "rule-approval"

\* C26: a cache hit moves the entry to the most-recently-used position and
\* leaves its recorded_at (here its age) as it is; nothing else in the cache
\* changes; a lookup that finds the entry at age >= ttl is a miss and
\* removes it, however often the entry was read before.
C26_HitKeepsRecordedAt ==
    [][\A c \in threads, a \in Actions :
          (/\ pc[c] \in {"idle", "done"}
           /\ CacheKey(a) \in Keys(cache)
           /\ \E op \in {"evaluate", "check"}, rod \in BOOLEAN :
                  Begin(c, op, a, rod)) =>
              LET k == CacheKey(a)
                  e == cache[IndexOf(cache, k)]
              IN  IF e.age < CacheTTL
                  THEN /\ stats'[c].hit
                       /\ Len(cache') = Len(cache)
                       /\ cache'[Len(cache')] = e
                       /\ \A i \in DOMAIN cache : \E j \in DOMAIN cache' :
                              cache'[j] = cache[i]
                  ELSE /\ ~stats'[c].hit
                       /\ k \notin Keys(cache')
                       /\ pc'[c] = "request"]_vars

\* an entry older than the other one was read and is the most recently used:
\* its age has not been reset
C26_Witness ==
    \E c \in threads :
        /\ stats[c].hit
        /\ pc[c] = "done"
        /\ Len(cache) = 2
        /\ cache[2].key = KeyOfCall(c)
        /\ cache[2].age = 1
        /\ cache[1].age = 0

\* C27: the identity_roles of every evaluation request is a non-empty list;
\* when the caller gives no roles and the environment value holds no usable
\* role, it is the single default role "agent".
C27_RolesNeverEmpty ==
    probe.body.built =>
        /\ probe.body.identity_roles # <<>>
        /\ (~probe.identity_roles.given /\ RolesOf(probe.roles_env) = <<>>) =>
               probe.body.identity_roles = <<"agent">>

\* with the variable unset, or any role in it, and no empty list given, the
\* request does carry roles: the default, the roles of the variable in their
\* order, or the caller's
RolesWhenUsable ==
    (probe.body.built /\ probe.identity_roles # GivenRoles(<<>>)
       /\ (probe.roles_env = "" \/ RolesOf(probe.roles_env) # <<>>
           \/ probe.identity_roles.given \/ impl = "runtime")) =>
        /\ probe.body.identity_roles # <<>>
        /\ (~probe.identity_roles.given /\ probe.roles_env = "") =>
               probe.body.identity_roles = <<"agent">>

RolesFromEnvironment ==
    /\ probe.body.built
    /\ impl = "sdk"
    /\ probe.roles_env = " ops , dev"
    /\ probe.body.identity_roles = <<"ops", "dev">>

\* C28: a caller that modifies the Decision it was given changes neither the
\* cache nor what a later evaluate is given: every cache entry, and every
\* Decision a lookup finds in the cache, is a response as the server sent it.
C28_DecisionNotShared ==
    /\ \A i \in DOMAIN cache : cache[i].value \in ServerResponses
    /\ \A c \in threads : stats[c].cached \in ServerResponses \cup {NoResponse}

\* C29 as stated: when evaluate returns, check returns true exactly when the
\* decision is allow and false exactly when it is deny.
C29_AsStated ==
    \A c \in threads :
        (call[c].op = "check" /\ pc[c] = "done" /\ outcome[c].kind = "return")
            => /\ outcome[c].check = "true"
                   <=> DecisionOf(outcome[c].value) = "allow"
               /\ outcome[c].check = "false"
                   <=> DecisionOf(outcome[c].value) = "deny"

\* C29, amended: when evaluate returns, check returns true exactly when the
\* decision of the result is allow (a result without a decision counts as
\* allow) and false for every other decision: a deny, and also an
\* approval_required returned for want of a request_id or a decision string
\* that is none of the three.
C29_CheckTrueIffAllow ==
    \A c \in threads :
        (call[c].op = "check" /\ pc[c] = "done" /\ outcome[c].kind = "return")
            => /\ outcome[c].check \in {"true", "false"}
               /\ outcome[c].check = "true"
                   <=> Get(outcome[c].value, "decision", "allow") = "allow"
               /\ DecisionOf(outcome[c].value) = "deny"
                   => outcome[c].check = "false"

\* check was false for an approval_required that could not be polled
C29_Witness ==
    \E c \in threads :
        /\ call[c].op = "check"
        /\ pc[c] = "done"
        /\ outcome[c].kind = "return"
        /\ outcome[c].value = RespApprovalNoId
        /\ outcome[c].check = "false"

\* check of a denied action is false, of an allowed one true
CheckOfDenyIsFalse ==
    \E c \in threads :
        /\ call[c].op = "check"
        /\ pc[c] = "done"
        /\ outcome[c].value = RespDeny
        /\ outcome[c].check = "false"

\* C30: the poller waits before every status request, the first included,
\* and never sends two status requests without a wait in between: while a
\* status request is under way the waits are one more than the status
\* requests answered, at every other moment as many; a terminal status that
\* arrives on the k-th status request arrives after exactly k waits.
C30_WaitBeforeEveryPoll ==
    \A c \in threads :
        /\ stats[c].waits = IF pc[c] = "poll" THEN stats[c].polls + 1
                            ELSE stats[c].polls
        /\ stats[c].terminal # "" =>
               /\ pc[c] = "done"
               /\ stats[c].polls >= 1
               /\ stats[c].waits = stats[c].polls

\* pending, then approved: 2 waits
C30_Witness ==
    \E c \in threads :
        /\ pc[c] = "done"
        /\ stats[c].clean
        /\ stats[c].terminal = "approved"
        /\ stats[c].polls = 2
        /\ stats[c].waits = 2

----------------------------------------------------------------------------
(* Who asks, and about which destination *)

\* identity_name and identity_roles as the callers of this section give them
Identities ==
    {[identity_name |-> "alice", identity_roles |-> <<"admin">>],
     [identity_name |-> "bob", identity_roles |-> <<"agent">>]}

\* destination as evaluate is given it: None, or a dict (here by its domain)
Destinations == {Absent, "internal.example", "other.example"}

\* the arguments of one evaluate: the action, the identity and the destination
WithCaller(a, who, destination) ==
    [action_type |-> a.action_type, action_name |-> a.action_name,
     arguments |-> a.arguments, identity_name |-> who.identity_name,
     identity_roles |-> who.identity_roles, destination |-> destination]

\* the request body of that evaluate: identity_name and identity_roles are
\* always sent, arguments and destination when they are not empty
RequestBody(e) ==
    [action_type |-> e.action_type, action_name |-> e.action_name,
     identity_name |-> e.identity_name, identity_roles |-> e.identity_roles,
     arguments |-> IF e.arguments # <<>> THEN e.arguments ELSE Absent,
     destination |-> IF Truthy(e.destination) THEN e.destination ELSE Absent]

\* The policy of the decision service explored in this section, decided on
\* the request body: admins may do anything anywhere but at other.example,
\* everybody else is denied.
Grants(body) ==
    /\ \E i \in DOMAIN body.identity_roles : body.identity_roles[i] = "admin"
    /\ body.destination # "other.example"

PolicyAnswer(body) == IF Grants(body) THEN RespAllow ELSE RespDeny

\* the SDK client called by several identities about several destinations
IdentityInit == Init /\ impl = "sdk"

IdentityNext ==
    \/ \E c \in threads, a \in {ActLs, ActRm}, who \in Identities,
          destination \in Destinations :
            Call(c, "evaluate", WithCaller(a, who, destination), FALSE)
    \/ \E c \in threads : TransportFail(c)
    \/ \E c \in threads :
          /\ pc[c] = "request"
          /\ ServerRespond(c, PolicyAnswer(RequestBody(call[c].action)))
    \/ \E c \in threads : StoreEvict(c)
    \/ Tick

IdentitySpec == IdentityInit /\ [][IdentityNext]_vars

\* C31: an Allow of the server is returned to a call only if the server
\* grants the action to the identity and the destination of that very call:
\* a call that ended with an allow and did not fail over to the fallback
\* has a request body the policy grants.
C31_AllowOnlyToGrantedCaller ==
    \A c \in threads :
        (/\ pc[c] = "done"
         /\ outcome[c].kind = "return"
         /\ ~stats[c].failed
         /\ DecisionOf(outcome[c].value) = "allow")
        => Grants(RequestBody(call[c].action))

\* an allow granted to one caller is in the cache for the next caller
AllowCachedForAnyCaller ==
    \E c \in threads :
        /\ pc[c] = "done"
        /\ stats[c].stored
        /\ Grants(RequestBody(call[c].action))
        /\ KeyOfCall(c) \in Keys(cache)

\* a call that sent its request gets what the policy grants its own body
C31_MissesGetTheirOwnGrant ==
    \A c \in threads :
        (/\ pc[c] = "done"
         /\ outcome[c].kind = "return"
         /\ ~stats[c].failed
         /\ ~stats[c].hit)
        => outcome[c].value = PolicyAnswer(RequestBody(call[c].action))

----------------------------------------------------------------------------
(* A server that comes and goes, and the true age of what it said *)

OutageActions == {ActLs, ActDeploy}

OutageKeys == {CacheKey(a) : a \in OutageActions}

\* up: the server is reachable; down: the seconds since it was last
\* reachable; issued[k]: the seconds since it last answered an evaluation
\* request of key k with an allow (both stop counting at the ttl, which
\* also stands for "never"); begun[c]: down, and issued of the key of the
\* call, when the call of c began; reached[c]: the server has been reachable
\* at some moment since
OutageProbe ==
    [up |-> TRUE, down |-> 0, issued |-> [k \in OutageKeys |-> CacheTTL],
     begun |-> [c \in {"c1"} |-> [down |-> 0, issued |-> CacheTTL]],
     reached |-> [c \in {"c1"} |-> TRUE]]

\* d seconds pass on the clocks of the probe
Later(p, d) ==
    [p EXCEPT !.down = IF p.up THEN 0 ELSE Min(@ + d, CacheTTL),
              !.issued = [k \in OutageKeys |-> Min(@[k] + d, CacheTTL)]]

OutageInit == InitWith({"c1"}) /\ fail_mode = "closed" /\ probe = OutageProbe

OutageCall(c, a) ==
    /\ Begin(c, "evaluate", a, FALSE)
    /\ probe' = [probe EXCEPT
           !.begun[c] = [down |-> probe.down,
                         issued |-> probe.issued[CacheKey(a)]],
           !.reached[c] = probe.up]
    /\ UNCHANGED site

\* the server is reachable: it answers the evaluation request
OutageRespond(c, r) ==
    /\ probe.up
    /\ Respond(c, r)
    /\ probe' = IF r # NotAnObject /\ DecisionOf(r) = "allow"
                THEN [probe EXCEPT !.issued[KeyOfCall(c)] = 0]
                ELSE probe

\* the server is reachable: it answers the status request
OutageStatus(c, s) == probe.up /\ PollStatus(c, s)

OutageSleep(c) == Sleep(c) /\ probe' = Later(probe, PollInterval)

OutageTick == Elapsed /\ probe' = Later(probe, 1)

\* the server becomes unreachable
ServerDown ==
    /\ probe.up
    /\ probe' = [probe EXCEPT !.up = FALSE, !.down = 0]
    /\ UNCHANGED <<impl, fail_mode, threads, cache, cache_lock, cache_history,
                   audit_buffer, submitted, flush_vars, site, pc, call,
                   original_response, outcome, stats>>

\* the server is reachable again
ServerUp ==
    /\ ~probe.up
    /\ probe' = [probe EXCEPT !.up = TRUE, !.down = 0,
                              !.reached = [c \in threads |-> TRUE]]
    /\ UNCHANGED <<impl, fail_mode, threads, cache, cache_lock, cache_history,
                   audit_buffer, submitted, flush_vars, site, pc, call,
                   original_response, outcome, stats>>

OutageNext ==
    \/ \E c \in threads, a \in OutageActions : OutageCall(c, a)
    \/ \E c \in threads : TransportFail(c)
    \/ \E c \in threads, r \in ServerResponses : OutageRespond(c, r)
    \/ \E c \in threads : StoreEvict(c)
    \/ \E c \in threads : OutageSleep(c)
    \/ \E c \in threads, s \in StatusPayloads : OutageStatus(c, s)
    \/ \E c \in threads : PollError(c)
    \/ OutageTick
    \/ ServerDown
    \/ ServerUp

OutageSpec == OutageInit /\ [][OutageNext]_vars

\* the call of c ended by returning an allow
ReturnedAllow(c) ==
    /\ pc[c] = "done"
    /\ outcome[c].kind = "return"
    /\ DecisionOf(outcome[c].value) = "allow"

OutageFailsClosed ==
    \E c \in threads :
        /\ pc[c] = "done"
        /\ probe.begun[c].down >= CacheTTL
        /\ ~probe.reached[c]
        /\ stats[c].found = "expired"
        /\ outcome[c].kind = "raise"

----------------------------------------------------------------------------
(* One evaluate after another: what the call before left behind *)

\* prev[c]: the cache key of the call of c before the present one when that
\* call ended with the allow of an approval, NoKey otherwise
ApprovalProbe == [prev |-> [c \in {"c1"} |-> NoKey]]

\* the call of c ended with an allow obtained by polling
ApprovedByPolling(c) ==
    /\ pc[c] = "done"
    /\ outcome[c].kind = "return"
    /\ stats[c].terminal \in {"approved", "allow"}

ApprovalInit == InitWith({"c1"}) /\ probe = ApprovalProbe

\* the next evaluate of c begins
ApprovalCall(c, a) ==
    /\ Begin(c, "evaluate", a, FALSE)
    /\ probe' = [probe EXCEPT
           !.prev[c] = IF ApprovedByPolling(c) THEN KeyOfCall(c) ELSE NoKey]
    /\ UNCHANGED site

ApprovalNext ==
    \/ \E c \in threads, a \in {ActLs, ActDeploy} : ApprovalCall(c, a)
    \/ \E c \in threads : TransportFail(c)
    \/ \E c \in threads, r \in ServerResponses : ServerRespond(c, r)
    \/ \E c \in threads : StoreEvict(c)
    \/ \E c \in threads : PollSleep(c)
    \/ \E c \in threads, s \in StatusPayloads : PollStatus(c, s)
    \/ \E c \in threads : PollError(c)
    \/ Tick

ApprovalSpec == ApprovalInit /\ [][ApprovalNext]_vars

\* C33: an allow obtained by polling is not stored: when the call ends its
\* key is not in the cache, and the next evaluate of the same action is a
\* miss that sends an evaluation request of its own.
C33_ApprovalNeverCached ==
    \A c \in threads :
        /\ ApprovedByPolling(c) =>
               /\ ~stats[c].stored
               /\ KeyOfCall(c) \notin Keys(cache)
        /\ (probe.prev[c] = KeyOfCall(c) /\ pc[c] # "idle") =>
               /\ stats[c].found = "absent"
               /\ ~stats[c].hit
               /\ pc[c] = "request" => stats[c].evalReqs = 0
               /\ pc[c] # "request" => stats[c].evalReqs = 1

\* the evaluate that follows an approval of the same action has sent its
\* own request and is polling again
C33_Witness ==
    \E c \in threads :
        /\ probe.prev[c] = KeyOfCall(c)
        /\ call[c].action = ActDeploy
        /\ pc[c] = "sleep"
        /\ stats[c].evalReqs = 1
        /\ original_response[c] = RespApproval

----------------------------------------------------------------------------
(* Two callers, one of them blocked on the server *)

\* met[d][c]: where the call of c was when the present call of d did its
\* lookup
BlockProbe == [met |-> [d \in Callers |-> [c \in Callers |-> "idle"]]]

\* the places where a call waits for the network or sleeps in the poller
Blocked == {"request", "sleep", "poll"}

\* what each caller asks about: c1 for the action that needs an approval,
\* c2 for one that is allowed at once
Asks(c) == IF c = "c1" THEN {ActDeploy} ELSE {ActLs}

\* the status answers explored with two callers
BlockStatuses == {s \in StatusPayloads : s.status \in {"pending", "approved"}}

BlockInit ==
    InitWith(Callers) /\ impl = "sdk" /\ fail_mode = "closed"
                      /\ probe = BlockProbe

BlockCall(d, a) ==
    /\ Begin(d, "evaluate", a, FALSE)
    /\ probe' = [probe EXCEPT !.met[d] = [c \in Callers |-> pc[c]]]
    /\ UNCHANGED site

BlockNext ==
    \/ \E d \in threads : \E a \in Asks(d) : BlockCall(d, a)
    \/ \E c \in threads, r \in {RespAllow, RespApproval} : ServerRespond(c, r)
    \/ \E c \in threads : StoreEvict(c)
    \/ \E c \in threads : PollSleep(c)
    \/ \E c \in threads, s \in BlockStatuses : PollStatus(c, s)
    \/ Tick

BlockSpec == BlockInit /\ [][BlockNext]_vars

\* C34: a call that waits for the server or sleeps in the polling loop does
\* not hold the cache lock; another caller whose key is cached and unexpired
\* can do its lookup at once, and a call that did its lookup while the other
\* was blocked, and found its key unexpired, has returned the cached decision
\* without a request of its own.
C34_LockNotHeldWhileBlocked ==
    \A c \in threads :
        /\ pc[c] \in Blocked => cache_lock # c
        /\ \A d \in threads \ {c} :
              /\ (/\ pc[c] \in Blocked
                  /\ pc[d] \in {"idle", "done"}
                  /\ \A e \in threads : pc[e] # "evict")
                 => \A a \in Asks(d) :
                        Hit(cache, CacheKey(a))
                            => ENABLED BlockCall(d, a)
              /\ (/\ probe.met[d][c] \in Blocked
                  /\ pc[d] # "idle"
                  /\ stats[d].found = "fresh")
                 => /\ pc[d] = "done"
                    /\ outcome[d] = Complete("evaluate", Return(stats[d].cached))
                    /\ stats[d].evalReqs = 0

\* c2 got its cached allow while c1 slept in the polling loop, and c1 is
\* still polling
C34_Witness ==
    /\ probe.met["c2"]["c1"] = "sleep"
    /\ pc["c2"] = "done"
    /\ stats["c2"].hit
    /\ outcome["c2"].value = RespAllow
    /\ pc["c1"] = "poll"
    /\ stats["c1"].attempt >= 2

\* c2 got its cached allow while c1 waited for the answer to its
\* evaluation request
HitWhileOtherRequests ==
    /\ probe.met["c2"]["c1"] = "request"
    /\ pc["c2"] = "done"
    /\ stats["c2"].hit
    /\ pc["c1"] = "request"

----------------------------------------------------------------------------
(* The position of a stored key *)

\* C35: right after the assignment of a store, while the storing call still
\* holds the lock, its key is the last entry of the cache, the last
\* candidate for eviction.
C35_StoredKeyIsMostRecent ==
    \A c \in threads :
        pc[c] = "evict" => cache[Len(cache)].key = KeyOfCall(c)

\* a key stored a second time while it is cached stays where it was: another
\* key is behind it
StoredKeyKeepsOldPosition ==
    \E c \in threads :
        /\ pc[c] = "evict"
        /\ Len(cache) = 2
        /\ cache[1].key = KeyOfCall(c)
        /\ cache[1].age = 0

----------------------------------------------------------------------------
(* Where every audit event is *)

\* how often the event stamped t occurs in a list of events
Count(events, t) ==
    Cardinality({i \in DOMAIN events : events[i].timestamp = t})

\* how often it occurs in the batches of the flushes in progress
RECURSIVE CountInBatches(_, _)
CountInBatches(fs, t) ==
    IF fs = {} THEN 0
    ELSE LET f == CHOOSE x \in fs : TRUE
         IN  Count(flush[f].events, t) + CountInBatches(fs \ {f}, t)

\* every stamp that occurs anywhere in the client or at the server
StampsAnywhere == Stamps(audit_buffer) \cup InFlight \cup Stamps(delivered)

\* C36: every audit event ever appended (they are stamped 1..submitted) is
\* in exactly one place, once: the audit buffer, the batch of a flush in
\* progress, or the events a successful flush delivered; and nothing else
\* is in any of them.
C36_EveryEventInOnePlace ==
    /\ \A t \in 1..submitted :
           Count(audit_buffer, t) + CountInBatches(Flushers, t)
               + Count(delivered, t) = 1
    /\ StampsAnywhere \subseteq 1..submitted

\* the three places are occupied at once, one flush in progress after the
\* other thread's flush has failed
C36_Witness ==
    \E f, g \in Flushers :
        /\ f # g
        /\ flush[f].pc = "sending"
        /\ flush[f].events # <<>>
        /\ flush[g].last = FlushFailEnd
        /\ audit_buffer # <<>>
        /\ delivered # <<>>

----------------------------------------------------------------------------
(* The bootstrap at work: an outage that ends, and the buffered events *)

\* up: the server is reachable
DeliveryProbe == [up |-> FALSE]

\* the intercepted action the process keeps performing
DeliveryInputs == {SiteInput("subprocess", "list", <<"ls">>, "")}

DeliveryInit ==
    InitWith({"c1"}) /\ impl = "runtime" /\ probe = DeliveryProbe

\* the server becomes reachable, and stays so
Recover ==
    /\ ~probe.up
    /\ probe' = [probe EXCEPT !.up = TRUE]
    /\ UNCHANGED <<impl, fail_mode, threads, cache, cache_lock, cache_history,
                   audit_buffer, submitted, flush_vars, site, pc, call,
                   original_response, outcome, stats>>

\* what the bootstrap does by itself: the wrappers call evaluate, whose
\* request fails while the server is unreachable and is answered afterwards
Intercept == \E c \in threads, i \in DeliveryInputs : SiteCall(c, i)

Unreachable == \E c \in threads : ~probe.up /\ TransportFail(c)

Answered ==
    \E c \in threads, r \in {RespAllow, RespDeny} :
        probe.up /\ ServerRespond(c, r)

Stored == \E c \in threads : StoreEvict(c)

Resumed == \E c \in threads : SiteReturn(c)

\* _audit_buffer_flush is called, by code outside the bootstrap: neither
\* evaluate nor any wrapper nor the module's top level calls it
FlushCalled == FlushBegin("f1")

\* the POST of a flush ends: urlopen(req, timeout=5) returns or raises
FlushEnds ==
    \/ probe.up /\ FlushSucceed("f1")
    \/ ~probe.up /\ FlushFail("f1")

DeliveryNext ==
    \/ Intercept
    \/ Unreachable
    \/ Answered
    \/ Stored
    \/ Resumed
    \/ Recover
    \/ Tick
    \/ FlushCalled
    \/ FlushEnds

\* the process keeps evaluating intercepted actions, its calls run on, the
\* server comes back and answers, time passes, a flush once called comes to
\* its end; nothing makes a call of the flush happen
DeliveryFairness ==
    /\ WF_vars(Intercept)
    /\ WF_vars(Unreachable)
    /\ WF_vars(Answered)
    /\ WF_vars(Stored)
    /\ WF_vars(Resumed)
    /\ WF_vars(Recover)
    /\ WF_vars(Tick)
    /\ WF_vars(FlushEnds)

DeliverySpec == DeliveryInit /\ [][DeliveryNext]_vars /\ DeliveryFairness

\* C37: every audit event that is in the buffer is eventually among the
\* events delivered to the server.
C37_BufferedEventuallyDelivered ==
    \A t \in 1..MaxEvents :
        (t \in Stamps(audit_buffer)) ~> (t \in Stamps(delivered))

\* the server is reachable again and the process goes on evaluating, with
\* an event still in the buffer
BufferedAfterRecovery ==
    \E c \in threads :
        /\ probe.up
        /\ audit_buffer # <<>>
        /\ delivered = <<>>
        /\ site[c].pc = "returned"
        /\ site[c].ran
        /\ stats[c].evalReqs = 1
        /\ ~stats[c].failed

\* the same with code outside that calls the flush again and again: under
\* this specification the buffered events are delivered
DeliveryWithFlushSpec == DeliverySpec /\ WF_vars(FlushCalled)

----------------------------------------------------------------------------
(* Status answers that are no verdict *)

\* c is polling, or was, and every status request it sent so far was answered
\* with a status that is no verdict (pending, empty, missing, unknown)
OnlyNonVerdicts(c) ==
    /\ stats[c].polls > 0
    /\ ~stats[c].erred
    /\ stats[c].terminal = ""

\* C38: a status answer that is none of approved, allow, denied, deny does
\* not end the polling and gives no allow: after such answers only, the call
\* is still in the loop with attempts left, or it has used all MaxPolls
\* attempts and ended as a timeout.
C38_UnknownStatusIsPending ==
    \A c \in threads :
        OnlyNonVerdicts(c) =>
            LET rid == Get(original_response[c], "request_id", "")
            IN  /\ ~ReturnedAllow(c)
                /\ pc[c] # "done" =>
                       /\ pc[c] \in {"sleep", "poll"}
                       /\ stats[c].polls < MaxPolls
                       /\ stats[c].polls \in {stats[c].attempt,
                                              stats[c].attempt - 1}
                /\ pc[c] = "done" =>
                       /\ stats[c].polls = MaxPolls
                       /\ stats[c].waits = MaxPolls
                       /\ outcome[c].kind = TimeoutOutcome(impl, rid).kind
                       /\ outcome[c].value = TimeoutOutcome(impl, rid).value

\* after a status that is not "pending" and no verdict either (expired,
\* empty or missing), the call sleeps before its next attempt
C38_Witness ==
    \E c \in threads :
        /\ OnlyNonVerdicts(c)
        /\ ~stats[c].clean
        /\ pc[c] = "sleep"
        /\ stats[c].polls = 2

\* thirty answers that are no verdict, not all of them "pending": timeout
NonVerdictsUseUpBudget ==
    \E c \in threads :
        /\ OnlyNonVerdicts(c)
        /\ ~stats[c].clean
        /\ pc[c] = "done"
        /\ stats[c].polls = MaxPolls

=============================================================================
